---- MODULE Spec2Model ----
\* Verification model of the cargo optimiser's packing core:
\*   - the extreme-point packing engine (extremePointBinPacking, the function the
\*     public getOptimalBinPacking delegates to),
\*   - the guillotine free-space engine (getOptimalBinPackingFromExtreme),
\*   - calculateSpaceUtilization,
\*   - the OptimumCombination component's optimizeCombination handler.
\*
\* Lengths are JavaScript numbers in the source.  Here a length is a fixed-point
\* integer counted in ticks, TicksPerCm ticks to the unit, so that the half
\* centimetre values on which Math.floor / Math.ceil matter are representable.
\* A caller's magnitude is counted in ticks of the caller's unit, a normalised
\* length in ticks of a centimetre.
EXTENDS Integers, Sequences, FiniteSets, TLC

VARIABLES
    engine,         \* run -> which packing function the run executes
    containerDims,  \* run -> the caller's container triple (argument)
    itemDims,       \* run -> the caller's item triple (argument)
    containerUnit,  \* run -> unit tag of containerDims (argument)
    itemUnit,       \* run -> unit tag of itemDims (argument)
    pc,             \* run -> position in the function body
    norm,           \* run -> [containerX, containerY, containerZ, itemX, itemY, itemZ]
    theoreticalMax, \* run -> Math.floor(containerVolume / itemVolume)
    orientations,   \* run -> the orientation list
    container,      \* run -> the Container object (extreme-point engine)
    itemIndex,      \* run -> number of loop passes started (for .. of items / iterations)
    best,           \* run -> bestPosition / bestOrientation of the current pass
    placedItems,    \* run -> the PlacedItem list built so far
    emptySpaces,    \* run -> the free-space list (guillotine engine)
    utilization     \* run -> the caller's calculateSpaceUtilization result

packVars == <<engine, containerDims, itemDims, containerUnit, itemUnit, pc, norm,
              theoreticalMax, orientations, container, itemIndex, best,
              placedItems, emptySpaces, utilization>>

\* The OptimumCombination component: its React state, and the locals of the
\* optimizeCombination handler while it runs
VARIABLES
    products,             \* useState: the uploaded Product rows
    masterCartonDims,     \* useState: text of the dimensions field
    masterCartonWeight,   \* useState: text of the maximum-weight field
    optimizedCombination, \* useState: the stored OptimizedProduct list
    loading,              \* useState: the busy flag
    toast,                \* the last toast shown
    cpc,                  \* position in optimizeCombination
    masterVolume,         \* local: calculateVolume(masterDims)
    maxWeight,            \* local: parseFloat(masterCartonWeight)
    result,               \* local: the OptimizedProduct list being built
    totalWeight,          \* local
    totalVolume,          \* local
    efficiencyScores,     \* local: the sorted candidate list
    improved,             \* local: the while flag
    scanIndex             \* local: position of the for .. of efficiencyScores

combVars == <<products, masterCartonDims, masterCartonWeight, optimizedCombination,
              loading, toast, cpc, masterVolume, maxWeight, result, totalWeight,
              totalVolume, efficiencyScores, improved, scanIndex>>

\* One call of splitSpace on its own, with lengths in fine ticks
VARIABLES
    splitCall,      \* the arguments: [space, item], or NoCall
    splitReturn,    \* the list the call returned
    splitPc         \* "call" before the call, "returned" after it

splitVars == <<splitCall, splitReturn, splitPc>>

vars == <<packVars, combVars, splitVars>>

-----------------------------------------------------------------------------
\* Fixed-point arithmetic

TicksPerCm == 2

Min(a, b) == IF a <= b THEN a ELSE b
Max(a, b) == IF a >= b THEN a ELSE b
Abs(a) == IF a < 0 THEN -a ELSE a

\* Math.floor / Math.ceil of a length, in whole units (a grid index)
Floor(v) == v \div TicksPerCm
Ceil(v) == (v + TicksPerCm - 1) \div TicksPerCm
\* Math.floor(a + b/2)
FloorMid(a, b) == (2 * a + b) \div (2 * TicksPerCm)

\* The two numbers outside the integers that a quotient or a parse can give.
\* NaN is kept apart from every value a computation of this model produces;
\* Infinity is larger than every such value.
NaN == -1
Infinity == 2147483647

isNaN(x) == x = NaN

\* Math.abs(a - b) < 0.01 and Math.abs(a - b) > 0.01: a tick is far larger than
\* the tolerance, so two lengths are within it exactly when they are equal.
Near(a, b) == a = b
Apart(a, b) == a # b

-----------------------------------------------------------------------------
\* Unit conversion

\* The conversion table, each multiplier as <<numerator, denominator>>:
\* 0.1, 1, 2.54, 30.48, 100.
conversions ==
    ("mm" :> <<1, 10>>) @@ ("cm" :> <<1, 1>>) @@ ("in" :> <<127, 50>>) @@
    ("ft" :> <<762, 25>>) @@ ("m" :> <<100, 1>>)

\* conversions[fromUnit] || 1
Multiplier(fromUnit) ==
    IF fromUnit \in DOMAIN conversions THEN conversions[fromUnit] ELSE <<1, 1>>

\* Mutant of convertToStandardUnit: the unit tag is ignored
convertToStandardUnitAsGiven(value, fromUnit) == value

convertToStandardUnit(value, fromUnit) ==
    (value * Multiplier(fromUnit)[1]) \div Multiplier(fromUnit)[2]

\* The magnitudes whose conversion is a whole number of ticks
Representable(value, fromUnit) ==
    (value * Multiplier(fromUnit)[1]) % Multiplier(fromUnit)[2] = 0

ConvertAll(dims, unit) == [i \in 1..3 |-> convertToStandardUnit(dims[i], unit)]

Volume(dims) == dims[1] * dims[2] * dims[3]

\* Mutant of TheoreticalMax: one item too many (an inclusive loop bound)
TheoreticalMaxOffByOne(containerVolume, itemVolume) ==
    containerVolume \div itemVolume + 1

\* Math.floor(containerVolume / itemVolume).  A zero itemVolume gives Infinity
\* under a positive containerVolume; under a negative one it gives -Infinity
\* and under zero NaN, and `i < theoreticalMax` is false of both from i = 0 on,
\* as it is of 0.
TheoreticalMax(containerVolume, itemVolume) ==
    IF itemVolume # 0 THEN containerVolume \div itemVolume
    ELSE IF containerVolume > 0 THEN Infinity
    ELSE 0

-----------------------------------------------------------------------------
\* Extreme-point engine: Container

\* Mutant of createContainer: the extreme-point list is not seeded with the origin
createContainerUnseeded(width, height, depth) ==
    [ width |-> width, height |-> height, depth |-> depth,
      items |-> <<>>, volumeUsed |-> 0,
      extremePoints |-> <<>>,
      space |-> {},
      spaceLen |-> <<Ceil(width) + 1, Ceil(depth) + 1, Ceil(height) + 1>> ]

\* Mutant of createContainer: the grid is one array shared by every run, so a
\* new container starts with the cells other runs have marked
createContainerSharedGrid(width, height, depth) ==
    [ width |-> width, height |-> height, depth |-> depth,
      items |-> <<>>, volumeUsed |-> 0,
      extremePoints |-> << <<0, 0, 0>> >>,
      space |-> UNION {container[r].space : r \in DOMAIN container},
      spaceLen |-> <<Ceil(width) + 1, Ceil(depth) + 1, Ceil(height) + 1>> ]

\* space is the boolean grid: the set of cells holding true, with the three
\* array lengths (x: ceil(width)+1, y: ceil(depth)+1, z: ceil(height)+1).
createContainer(width, height, depth) ==
    [ width |-> width, height |-> height, depth |-> depth,
      items |-> <<>>, volumeUsed |-> 0,
      extremePoints |-> << <<0, 0, 0>> >>,
      space |-> {},
      spaceLen |-> <<Ceil(width) + 1, Ceil(depth) + 1, Ceil(height) + 1>> ]

\* the index guard used before every grid access
InGrid(c, px, py, pz) ==
    /\ px >= 0 /\ py >= 0 /\ pz >= 0
    /\ px < c.spaceLen[1] /\ py < c.spaceLen[2] /\ pz < c.spaceLen[3]

isValidPoint(c, point) ==
    /\ point[1] >= 0 /\ point[1] <= c.width
    /\ point[2] >= 0 /\ point[2] <= c.depth
    /\ point[3] >= 0 /\ point[3] <= c.height

SamePoint(a, b) == Near(a[1], b[1]) /\ Near(a[2], b[2]) /\ Near(a[3], b[3])

\* for (dx = 0; dx < e; dx += steps) with steps = Math.max(1, Math.floor(e / 5)):
\* the offsets dx, in whole units
StrideOffsets(e) ==
    LET steps == Max(1, e \div (5 * TicksPerCm))
    IN  {k * steps : k \in {n \in 0..Ceil(e) : n * steps * TicksPerCm < e}}

\* canPlace, first part: the box stays within the container
WithinContainer(c, position, rotation) ==
    ~( position[1] + rotation[1] > c.width
       \/ position[2] + rotation[2] > c.depth
       \/ position[3] + rotation[3] > c.height )

\* canPlace, second part: none of the sampled cells is occupied (the eight
\* corner cells and the centre; beyond 10 units of extent a strided lattice)
SampledCellsFree(c, position, rotation) ==
    LET x == position[1]  y == position[2]  z == position[3]
        w == rotation[1]  d == rotation[2]  h == rotation[3]
        xEnd == Min(Floor(x + w), Floor(c.width))
        yEnd == Min(Floor(y + d), Floor(c.depth))
        zEnd == Min(Floor(z + h), Floor(c.height))
        pointsToCheck ==
            { <<Floor(x), Floor(y), Floor(z)>>,
              <<xEnd - 1, Floor(y), Floor(z)>>,
              <<Floor(x), yEnd - 1, Floor(z)>>,
              <<xEnd - 1, yEnd - 1, Floor(z)>>,
              <<Floor(x), Floor(y), zEnd - 1>>,
              <<xEnd - 1, Floor(y), zEnd - 1>>,
              <<Floor(x), yEnd - 1, zEnd - 1>>,
              <<xEnd - 1, yEnd - 1, zEnd - 1>>,
              <<FloorMid(x, w), FloorMid(y, d), FloorMid(z, h)>> }
        sampled ==
            IF w > 10 * TicksPerCm \/ d > 10 * TicksPerCm \/ h > 10 * TicksPerCm
            THEN { <<Floor(x) + dx, Floor(y) + dy, Floor(z) + dz>> :
                     dx \in StrideOffsets(w), dy \in StrideOffsets(d),
                     dz \in StrideOffsets(h) }
            ELSE {}
    IN  \A p \in pointsToCheck \cup sampled :
            InGrid(c, p[1], p[2], p[3]) => p \notin c.space

\* Mutant of canPlace: the boundary check is missing
canPlaceUnbounded(c, position, rotation) ==
    SampledCellsFree(c, position, rotation)

canPlace(c, position, rotation) ==
    /\ WithinContainer(c, position, rotation)
    /\ SampledCellsFree(c, position, rotation)

\* Mutant of addItemToContainer: only the cell at the box's corner is marked
addItemToContainerCornerCell(c, item, position, rotation) ==
    LET x == position[1]  y == position[2]  z == position[3]
        w == rotation[1]  d == rotation[2]  h == rotation[3]
        placed == [ width |-> item.width, height |-> item.height,
                    depth |-> item.depth, id |-> item.id,
                    position |-> position, rotation |-> rotation ]
        xEnd == Min(Floor(x + w), Floor(c.width))
        yEnd == Min(Floor(y + d), Floor(c.depth))
        zEnd == Min(Floor(z + h), Floor(c.height))
        marked == { <<px, py, pz>> \in
                      (Floor(x)..(xEnd - 1)) \X (Floor(y)..(yEnd - 1)) \X
                      (Floor(z)..(zEnd - 1)) : InGrid(c, px, py, pz) }
        newPoints == << <<x + w, y, z>>, <<x, y + d, z>>, <<x, y, z + h>> >>
        \* push each new point that is valid and not yet in the list
        Push(eps, point) ==
            IF isValidPoint(c, point)
               /\ ~(\E i \in 1..Len(eps) : SamePoint(eps[i], point))
            THEN Append(eps, point) ELSE eps
        pushed == Push(Push(Push(c.extremePoints, newPoints[1]), newPoints[2]),
                       newPoints[3])
    IN  [ c EXCEPT
            !.items = Append(@, placed),
            !.volumeUsed = @ + item.width * item.height * item.depth,
            !.space = @ \cup {cell \in marked : cell = <<Floor(x), Floor(y), Floor(z)>>},
            !.extremePoints = SelectSeq(pushed, LAMBDA ep : ~SamePoint(ep, position)) ]

\* Mutant of addItemToContainer: the used extreme point stays in the list
addItemToContainerKeepsPoint(c, item, position, rotation) ==
    LET x == position[1]  y == position[2]  z == position[3]
        w == rotation[1]  d == rotation[2]  h == rotation[3]
        placed == [ width |-> item.width, height |-> item.height,
                    depth |-> item.depth, id |-> item.id,
                    position |-> position, rotation |-> rotation ]
        xEnd == Min(Floor(x + w), Floor(c.width))
        yEnd == Min(Floor(y + d), Floor(c.depth))
        zEnd == Min(Floor(z + h), Floor(c.height))
        marked == { <<px, py, pz>> \in
                      (Floor(x)..(xEnd - 1)) \X (Floor(y)..(yEnd - 1)) \X
                      (Floor(z)..(zEnd - 1)) : InGrid(c, px, py, pz) }
        newPoints == << <<x + w, y, z>>, <<x, y + d, z>>, <<x, y, z + h>> >>
        \* push each new point that is valid and not yet in the list
        Push(eps, point) ==
            IF isValidPoint(c, point)
               /\ ~(\E i \in 1..Len(eps) : SamePoint(eps[i], point))
            THEN Append(eps, point) ELSE eps
        pushed == Push(Push(Push(c.extremePoints, newPoints[1]), newPoints[2]),
                       newPoints[3])
    IN  [ c EXCEPT
            !.items = Append(@, placed),
            !.volumeUsed = @ + item.width * item.height * item.depth,
            !.space = @ \cup marked,
            !.extremePoints = pushed ]

\* addItemToContainer(container, item, position, rotation): the container after it
addItemToContainer(c, item, position, rotation) ==
    LET x == position[1]  y == position[2]  z == position[3]
        w == rotation[1]  d == rotation[2]  h == rotation[3]
        placed == [ width |-> item.width, height |-> item.height,
                    depth |-> item.depth, id |-> item.id,
                    position |-> position, rotation |-> rotation ]
        xEnd == Min(Floor(x + w), Floor(c.width))
        yEnd == Min(Floor(y + d), Floor(c.depth))
        zEnd == Min(Floor(z + h), Floor(c.height))
        marked == { <<px, py, pz>> \in
                      (Floor(x)..(xEnd - 1)) \X (Floor(y)..(yEnd - 1)) \X
                      (Floor(z)..(zEnd - 1)) : InGrid(c, px, py, pz) }
        newPoints == << <<x + w, y, z>>, <<x, y + d, z>>, <<x, y, z + h>> >>
        \* push each new point that is valid and not yet in the list
        Push(eps, point) ==
            IF isValidPoint(c, point)
               /\ ~(\E i \in 1..Len(eps) : SamePoint(eps[i], point))
            THEN Append(eps, point) ELSE eps
        pushed == Push(Push(Push(c.extremePoints, newPoints[1]), newPoints[2]),
                       newPoints[3])
    IN  [ c EXCEPT
            !.items = Append(@, placed),
            !.volumeUsed = @ + item.width * item.height * item.depth,
            !.space = @ \cup marked,
            !.extremePoints = SelectSeq(pushed, LAMBDA ep : ~SamePoint(ep, position)) ]

\* Mutant of getAllOrientations: the item is never rotated
getAllOrientationsNaturalOnly(dims) == << <<dims[1], dims[2], dims[3]>> >>

\* Mutant of getAllOrientations: the six permutations as they are listed
getAllOrientationsUnfiltered(dims) ==
    << <<dims[1], dims[2], dims[3]>>, <<dims[1], dims[3], dims[2]>>,
       <<dims[2], dims[1], dims[3]>>, <<dims[2], dims[3], dims[1]>>,
       <<dims[3], dims[1], dims[2]>>, <<dims[3], dims[2], dims[1]>> >>

\* getAllOrientations(dims): the six permutations, first occurrence of each
\* kept.  The source compares the keys perm.join(','); the decimal text of a
\* number identifies it, so two keys are equal exactly when the triples are.
getAllOrientations(dims) ==
    LET w == dims[1]  h == dims[2]  d == dims[3]
        permutations == << <<w, h, d>>, <<w, d, h>>, <<h, w, d>>,
                           <<h, d, w>>, <<d, w, h>>, <<d, h, w>> >>
        Keep[k \in 0..6] ==
            IF k = 0 THEN <<>>
            ELSE IF \E i \in 1..Len(Keep[k - 1]) : Keep[k - 1][i] = permutations[k]
                 THEN Keep[k - 1]
                 ELSE Append(Keep[k - 1], permutations[k])
    IN  Keep[6]

\* The comparator of container.extremePoints.sort: negative when a sorts first
\* (height coordinate, then x, then y).
ComparePoints(a, b) ==
    IF Apart(a[3], b[3]) THEN a[3] - b[3]
    ELSE IF Apart(a[1], b[1]) THEN a[1] - b[1]
    ELSE a[2] - b[2]

\* Array.prototype.sort is stable: an element is inserted after every element
\* that does not sort after it.
InsertPoint(sorted, p) ==
    LET n == Cardinality({i \in 1..Len(sorted) : ComparePoints(sorted[i], p) <= 0})
    IN  SubSeq(sorted, 1, n) \o <<p>> \o SubSeq(sorted, n + 1, Len(sorted))

SortExtremePoints(eps) ==
    LET Sorted[k \in 0..Len(eps)] ==
            IF k = 0 THEN <<>> ELSE InsertPoint(Sorted[k - 1], eps[k])
    IN  Sorted[Len(eps)]

Fitness(point) == point[1] * point[1] + point[2] * point[2] + point[3] * point[3]

\* bestFitness = Infinity, bestPosition = bestOrientation = null
NoBest == [found |-> FALSE, fitness |-> 0, position |-> <<>>, orientation |-> <<>>]

\* Mutant of SelectBest: only the first extreme point is tried
SelectBestFirstPoint(c, orients) ==
    LET np == Min(1, Len(c.extremePoints))
        no == Len(orients)
        Scan[k \in 0..(np * no)] ==
            IF k = 0 THEN NoBest
            ELSE LET point == c.extremePoints[((k - 1) \div no) + 1]
                     orientation == orients[((k - 1) % no) + 1]
                     prev == Scan[k - 1]
                 IN  IF canPlace(c, point, orientation)
                        /\ (~prev.found \/ Fitness(point) < prev.fitness)
                     THEN [found |-> TRUE, fitness |-> Fitness(point),
                           position |-> point, orientation |-> orientation]
                     ELSE prev
    IN  Scan[np * no]

\* Mutant of SelectBest: a pair of equal fitness replaces the best one
SelectBestLastWins(c, orients) ==
    LET np == Len(c.extremePoints)
        no == Len(orients)
        Scan[k \in 0..(np * no)] ==
            IF k = 0 THEN NoBest
            ELSE LET point == c.extremePoints[((k - 1) \div no) + 1]
                     orientation == orients[((k - 1) % no) + 1]
                     prev == Scan[k - 1]
                 IN  IF canPlace(c, point, orientation)
                        /\ (~prev.found \/ Fitness(point) <= prev.fitness)
                     THEN [found |-> TRUE, fitness |-> Fitness(point),
                           position |-> point, orientation |-> orientation]
                     ELSE prev
    IN  Scan[np * no]

\* The two nested loops of a selection pass, as a scan over the pairs
\* (point, orientation) in evaluation order; a pair replaces the best one only
\* when its fitness is strictly smaller.
SelectBest(c, orients) ==
    LET np == Len(c.extremePoints)
        no == Len(orients)
        Scan[k \in 0..(np * no)] ==
            IF k = 0 THEN NoBest
            ELSE LET point == c.extremePoints[((k - 1) \div no) + 1]
                     orientation == orients[((k - 1) % no) + 1]
                     prev == Scan[k - 1]
                 IN  IF canPlace(c, point, orientation)
                        /\ (~prev.found \/ Fitness(point) < prev.fitness)
                     THEN [found |-> TRUE, fitness |-> Fitness(point),
                           position |-> point, orientation |-> orientation]
                     ELSE prev
    IN  Scan[np * no]

\* The PlacedItem pushed after a commit.  A position component is a centre
\* coordinate and may fall on a quarter unit, so it is stored doubled
\* (in half ticks): x + w/2 - containerX/2 becomes 2x + w - containerX.
MakePlacedItem(n, bestPosition, bestOrientation) ==
    LET x == bestPosition[1]  y == bestPosition[2]  z == bestPosition[3]
        w == bestOrientation[1]  h == bestOrientation[2]  d == bestOrientation[3]
    IN  [ position |-> << 2 * x + w - n.containerX,
                          2 * z + d - n.containerZ,
                          2 * y + h - n.containerY >>,
          dimensions |-> <<w, d, h>>,
          rotation |-> <<0, 0, 0>>,
          rotated |-> ~(w = n.itemX /\ h = n.itemY /\ d = n.itemZ) ]

-----------------------------------------------------------------------------
\* Pack requests

MaxContainerTicks == 4
MaxItemTicks == 3

Triples(S) == {<<a, b, c>> : a \in S, b \in S, c \in S}

Request(cd, cu, id, iu) ==
    [containerDims |-> cd, containerUnit |-> cu, itemDims |-> id, itemUnit |-> iu]

\* every container of 1 cm up to MaxContainerTicks per axis with every item up
\* to MaxItemTicks per axis, in half centimetre steps
SmallRequests ==
    { Request(cd, "cm", id, "cm") :
        cd \in Triples({t \in 1..MaxContainerTicks : t >= TicksPerCm}),
        id \in Triples(1..MaxItemTicks) }

\* container (50,30,40) cm with item (10,10,5) cm; container (10,10,10) with
\* item (11,1,1); an item longer than 10 cm (strided sampling); requests in
\* millimetres, in metres, in feet, in inches and under an unknown unit tag
ScenarioRequests ==
    { Request(<<100, 60, 80>>, "cm", <<20, 20, 10>>, "cm"),
      Request(<<20, 20, 20>>, "cm", <<22, 2, 2>>, "cm"),
      Request(<<24, 24, 2>>, "cm", <<22, 2, 2>>, "cm"),
      Request(<<40, 20, 40>>, "mm", <<2, 2, 2>>, "cm"),
      Request(<<4, 4, 2>>, "cm", <<20, 30, 10>>, "mm"),
      Request(<<4, 4, 4>>, "m", <<25, 25, 25>>, "ft"),
      Request(<<4, 2, 6>>, "yd", <<2, 2, 3>>, "cm"),
      Request(<<50, 50, 50>>, "in", <<100, 50, 50>>, "in") }

PackRequests ==
    { q \in SmallRequests \cup ScenarioRequests :
        \A i \in 1..3 : /\ Representable(q.containerDims[i], q.containerUnit)
                        /\ Representable(q.itemDims[i], q.itemUnit) }

\* before the function body runs there is no container
NoContainer ==
    [ width |-> 0, height |-> 0, depth |-> 0, items |-> <<>>, volumeUsed |-> 0,
      extremePoints |-> <<>>, space |-> {}, spaceLen |-> <<0, 0, 0>> ]

NoNorm == [containerX |-> 0, containerY |-> 0, containerZ |-> 0,
           itemX |-> 0, itemY |-> 0, itemZ |-> 0]

\* The scores of the guillotine engine are compared as integer fractions, which
\* stay within the integers for containers of a few centimetres.
GuillotineRequests ==
    { q \in PackRequests :
        \A i \in 1..3 : convertToStandardUnit(q.containerDims[i], q.containerUnit)
                          <= MaxContainerTicks + TicksPerCm }

Jobs == (PackRequests \X {"extremePoint"}) \cup (GuillotineRequests \X {"guillotine"})

\* Requests with a zero or a negative dimension, as a caller passes them on
\* from its parseFloat of a filled-in field: a flat container, a negative
\* container axis, a flat item, a negative item axis, both negative.
InvalidRequests ==
    { Request(<<0, 4, 4>>, "cm", <<2, 2, 2>>, "cm"),
      Request(<<-2, 4, 4>>, "cm", <<2, 2, 2>>, "cm"),
      Request(<<4, 4, 4>>, "cm", <<0, 2, 2>>, "cm"),
      Request(<<4, 4, 4>>, "cm", <<-2, 2, 2>>, "cm"),
      Request(<<-2, 2, 2>>, "cm", <<-2, 2, 2>>, "cm"),
      Request(<<40, 0, 40>>, "mm", <<2, 2, 2>>, "cm") }

AnyJobs == Jobs \cup (InvalidRequests \X {"extremePoint"})

\* A set of runs, each given a request and an engine, none started
InitRuns(ids, jobs) ==
    \E job \in [ids -> jobs] :
      LET req == [r \in ids |-> job[r][1]]
          eng == [r \in ids |-> job[r][2]]
      IN
        /\ engine = eng
        /\ containerDims = [r \in ids |-> req[r].containerDims]
        /\ containerUnit = [r \in ids |-> req[r].containerUnit]
        /\ itemDims = [r \in ids |-> req[r].itemDims]
        /\ itemUnit = [r \in ids |-> req[r].itemUnit]
        /\ pc = [r \in ids |-> "Start"]
        /\ norm = [r \in ids |-> NoNorm]
        /\ theoreticalMax = [r \in ids |-> 0]
        /\ orientations = [r \in ids |-> <<>>]
        /\ container = [r \in ids |-> NoContainer]
        /\ itemIndex = [r \in ids |-> 0]
        /\ best = [r \in ids |-> NoBest]
        /\ placedItems = [r \in ids |-> <<>>]
        /\ emptySpaces = [r \in ids |-> <<>>]
        /\ utilization = [r \in ids |-> 0]

Runs == DOMAIN pc

-----------------------------------------------------------------------------
\* Extreme-point engine: getOptimalBinPacking

\* Mutant of Normalised: the item is taken in the caller's magnitudes
NormalisedContainerOnly(r) ==
    LET c == ConvertAll(containerDims[r], containerUnit[r])
        i == itemDims[r]
    IN  [containerX |-> c[1], containerY |-> c[2], containerZ |-> c[3],
         itemX |-> i[1], itemY |-> i[2], itemZ |-> i[3]]

\* the normalised dimensions of run r's arguments
Normalised(r) ==
    LET c == ConvertAll(containerDims[r], containerUnit[r])
        i == ConvertAll(itemDims[r], itemUnit[r])
    IN  [containerX |-> c[1], containerY |-> c[2], containerZ |-> c[3],
         itemX |-> i[1], itemY |-> i[2], itemZ |-> i[3]]

\* Initializing: normalise, theoreticalMax, createContainer (Y and Z swapped),
\* the orientations and the list of theoreticalMax items.  Under an infinite
\* theoreticalMax the loop that builds the list pushes items until the memory
\* is used up, and the call never returns.
Initialize(r) ==
    /\ pc[r] = "Start"
    /\ engine[r] = "extremePoint"
    /\ LET n == Normalised(r)
       IN  /\ norm' = [norm EXCEPT ![r] = n]
           /\ theoreticalMax' = [theoreticalMax EXCEPT ![r] =
                 TheoreticalMax(Volume(<<n.containerX, n.containerY, n.containerZ>>),
                                Volume(<<n.itemX, n.itemY, n.itemZ>>))]
           /\ container' = [container EXCEPT ![r] =
                 createContainer(n.containerX, n.containerZ, n.containerY)]
           /\ orientations' = [orientations EXCEPT ![r] =
                 getAllOrientations(<<n.itemX, n.itemY, n.itemZ>>)]
    /\ placedItems' = [placedItems EXCEPT ![r] = <<>>]
    /\ itemIndex' = [itemIndex EXCEPT ![r] = 0]
    /\ best' = [best EXCEPT ![r] = NoBest]
    /\ pc' = [pc EXCEPT ![r] =
                 IF theoreticalMax'[r] = Infinity THEN "OutOfMemory" ELSE "Selecting"]
    /\ UNCHANGED <<combVars, splitVars>>
    /\ UNCHANGED <<engine, containerDims, itemDims, containerUnit, itemUnit,
                   emptySpaces, utilization>>

\* Selecting: the next item of the list; sort the extreme points in place and
\* scan every (point, orientation); without a candidate the loop breaks.
Select(r) ==
    /\ pc[r] = "Selecting"
    /\ engine[r] = "extremePoint"
    /\ itemIndex[r] < theoreticalMax[r]
    /\ LET sorted == [container[r] EXCEPT
                        !.extremePoints = SortExtremePoints(@)]
           found == SelectBest(sorted, orientations[r])
       IN  /\ container' = [container EXCEPT ![r] = sorted]
           /\ best' = [best EXCEPT ![r] = found]
           /\ pc' = [pc EXCEPT ![r] =
                        IF found.found THEN "Placing" ELSE "Exhausted"]
    /\ itemIndex' = [itemIndex EXCEPT ![r] = @ + 1]
    /\ UNCHANGED <<combVars, splitVars>>
    /\ UNCHANGED <<engine, containerDims, itemDims, containerUnit, itemUnit,
                   norm, theoreticalMax, orientations, placedItems, emptySpaces, utilization>>

\* Placing: addItemToContainer and the PlacedItem pushed after it
Place(r) ==
    /\ pc[r] = "Placing"
    /\ engine[r] = "extremePoint"
    /\ LET item == [width |-> norm[r].itemX, height |-> norm[r].itemY,
                    depth |-> norm[r].itemZ, id |-> itemIndex[r] - 1]
       IN  container' = [container EXCEPT ![r] =
              addItemToContainer(@, item, best[r].position, best[r].orientation)]
    /\ placedItems' = [placedItems EXCEPT ![r] =
          Append(@, MakePlacedItem(norm[r], best[r].position, best[r].orientation))]
    /\ best' = [best EXCEPT ![r] = NoBest]
    /\ pc' = [pc EXCEPT ![r] = "Selecting"]
    /\ UNCHANGED <<combVars, splitVars>>
    /\ UNCHANGED <<engine, containerDims, itemDims, containerUnit, itemUnit,
                   norm, theoreticalMax, orientations, itemIndex, emptySpaces, utilization>>

\* the item list is used up: return placedItems
Return(r) ==
    /\ pc[r] = "Selecting"
    /\ engine[r] = "extremePoint"
    /\ itemIndex[r] >= theoreticalMax[r]
    /\ pc' = [pc EXCEPT ![r] = "Exhausted"]
    /\ UNCHANGED <<combVars, splitVars>>
    /\ UNCHANGED <<engine, containerDims, itemDims, containerUnit, itemUnit,
                   norm, theoreticalMax, orientations, container, itemIndex,
                   best, placedItems, emptySpaces, utilization>>

-----------------------------------------------------------------------------
\* Guillotine engine: getOptimalBinPackingFromExtreme

\* The six orientations; a rotation angle is counted in quarter turns (PI/2).
GuillotineOrientations(n) ==
    << [dims |-> <<n.itemX, n.itemY, n.itemZ>>, rotation |-> <<0, 0, 0>>, rotated |-> FALSE],
       [dims |-> <<n.itemY, n.itemX, n.itemZ>>, rotation |-> <<0, 0, 1>>, rotated |-> TRUE],
       [dims |-> <<n.itemZ, n.itemY, n.itemX>>, rotation |-> <<1, 0, 0>>, rotated |-> TRUE],
       [dims |-> <<n.itemX, n.itemZ, n.itemY>>, rotation |-> <<0, 1, 0>>, rotated |-> TRUE],
       [dims |-> <<n.itemY, n.itemZ, n.itemX>>, rotation |-> <<1, 0, 1>>, rotated |-> TRUE],
       [dims |-> <<n.itemZ, n.itemX, n.itemY>>, rotation |-> <<0, 1, 1>>, rotated |-> TRUE] >>

canFit(space, dims) ==
    dims[1] <= space.width /\ dims[2] <= space.height /\ dims[3] <= space.depth

\* Mutant of isValidPosition: a box that touches a far wall is refused
isValidPositionInner(n, item) ==
    /\ item.x >= 0 /\ item.y >= 0 /\ item.z >= 0
    /\ item.x + item.w < n.containerX
    /\ item.y + item.h < n.containerY
    /\ item.z + item.d < n.containerZ

isValidPosition(n, item) ==
    /\ item.x >= 0 /\ item.y >= 0 /\ item.z >= 0
    /\ item.x + item.w <= n.containerX
    /\ item.y + item.h <= n.containerY
    /\ item.z + item.d <= n.containerZ

\* totalScore = volumeFit * 0.4 + tightnessFactor * 0.4 + leftoverPenalty * 0.2
\* is the fraction ScoreNum / ScoreDen.
ScoreDen(space) ==
    5 * space.width * space.height * space.depth
      * (space.width + space.height + space.depth)

ScoreNum(space, dims) ==
    LET w == dims[1]  h == dims[2]  d == dims[3]
        W == space.width  H == space.height  D == space.depth
        sum == W + H + D
        leftover == (W - w) + (H - h) + (D - d)
        tight == Min(w * H * D, Min(h * W * D, d * W * H))
    IN  2 * (w * h * d) * sum + 2 * tight * sum + (sum - leftover) * (W * H * D)

\* a.score > b.score
ScoreGreater(a, b) == a.num * b.den > b.num * a.den

\* bestFit = null
NoFit == [found |-> FALSE, orientation |-> <<>>, num |-> 0, den |-> 1, spaceIndex |-> 0]

\* findBestFitInSpace(space): bestScore starts at -1, below every score
findBestFitInSpace(space, orients) ==
    LET Scan[k \in 0..Len(orients)] ==
            IF k = 0 THEN NoFit
            ELSE LET prev == Scan[k - 1]
                     cand == [found |-> TRUE, orientation |-> orients[k],
                              num |-> ScoreNum(space, orients[k].dims),
                              den |-> ScoreDen(space), spaceIndex |-> 0]
                 IN  IF canFit(space, orients[k].dims)
                        /\ (~prev.found \/ ScoreGreater(cand, prev))
                     THEN cand ELSE prev
    IN  Scan[Len(orients)]

\* the scan over emptySpaces for the best placement
FindBestPlacement(spaces, orients) ==
    LET Scan[i \in 0..Len(spaces)] ==
            IF i = 0 THEN NoFit
            ELSE LET prev == Scan[i - 1]
                     fit == findBestFitInSpace(spaces[i], orients)
                 IN  IF fit.found /\ (~prev.found \/ ScoreGreater(fit, prev))
                     THEN [fit EXCEPT !.spaceIndex = i] ELSE prev
    IN  Scan[Len(spaces)]

SpaceVolume(s) == s.width * s.height * s.depth

\* the comparator of emptySpaces.sort: y, then x, then z, then larger volume first
CompareSpaces(a, b) ==
    IF Apart(a.y, b.y) THEN a.y - b.y
    ELSE IF Apart(a.x, b.x) THEN a.x - b.x
    ELSE IF Apart(a.z, b.z) THEN a.z - b.z
    ELSE SpaceVolume(b) - SpaceVolume(a)

InsertSpace(sorted, s) ==
    LET n == Cardinality({i \in 1..Len(sorted) : CompareSpaces(sorted[i], s) <= 0})
    IN  SubSeq(sorted, 1, n) \o <<s>> \o SubSeq(sorted, n + 1, Len(sorted))

SortSpaces(spaces) ==
    LET Sorted[k \in 0..Len(spaces)] ==
            IF k = 0 THEN <<>> ELSE InsertSpace(Sorted[k - 1], spaces[k])
    IN  Sorted[Len(spaces)]

\* 0.01 cm as a whole number of ticks, rounded down: at 2 ticks per centimetre
\* a length is above 0.01 exactly when it is at least one tick
Hundredth(ticksPerCm) == ticksPerCm \div 100

\* splitSpace(space, item) with lengths at the given resolution: right, top
\* and front successors, then the filter that keeps the successors whose three
\* dimensions are above 0.01
splitSpaceAt(space, item, ticksPerCm) ==
    LET right == IF item.x + item.w < space.x + space.width
                 THEN << [x |-> item.x + item.w, y |-> space.y, z |-> space.z,
                          width |-> (space.x + space.width) - (item.x + item.w),
                          height |-> space.height, depth |-> space.depth] >>
                 ELSE <<>>
        top == IF item.y + item.h < space.y + space.height
               THEN << [x |-> space.x, y |-> item.y + item.h, z |-> space.z,
                        width |-> item.w,
                        height |-> (space.y + space.height) - (item.y + item.h),
                        depth |-> space.depth] >>
               ELSE <<>>
        front == IF item.z + item.d < space.z + space.depth
                 THEN << [x |-> space.x, y |-> space.y, z |-> item.z + item.d,
                          width |-> item.w, height |-> item.h,
                          depth |-> (space.z + space.depth) - (item.z + item.d)] >>
                 ELSE <<>>
    IN  SelectSeq(right \o top \o front,
                  LAMBDA s : /\ s.width > Hundredth(ticksPerCm)
                             /\ s.height > Hundredth(ticksPerCm)
                             /\ s.depth > Hundredth(ticksPerCm))

\* splitSpace as the engine calls it
splitSpace(space, item) == splitSpaceAt(space, item, TicksPerCm)

\* space a lies within space b
ContainedIn(a, b) ==
    /\ a.x >= b.x /\ a.y >= b.y /\ a.z >= b.z
    /\ a.x + a.width <= b.x + b.width
    /\ a.y + a.height <= b.y + b.height
    /\ a.z + a.depth <= b.z + b.depth

\* cleanupSpaces(spaces): the indices kept, then the filtered list
cleanupSpaces(spaces, orients) ==
    LET Keep(k) ==
            /\ ~(spaces[k].width < 1 \/ spaces[k].height < 1 \/ spaces[k].depth < 1)
            /\ \E o \in 1..Len(orients) : canFit(spaces[k], orients[o].dims)
            /\ ~(\E i \in 1..Len(spaces) : i # k /\ ContainedIn(spaces[k], spaces[i]))
        Filtered[k \in 0..Len(spaces)] ==
            IF k = 0 THEN <<>>
            ELSE IF Keep(k) THEN Append(Filtered[k - 1], spaces[k])
                 ELSE Filtered[k - 1]
    IN  Filtered[Len(spaces)]

RemoveAt(seq, k) == SubSeq(seq, 1, k - 1) \o SubSeq(seq, k + 1, Len(seq))

\* normalise, theoreticalMax, the whole container as the one free space, the
\* six orientations
GuillotineInitialize(r) ==
    /\ pc[r] = "Start"
    /\ engine[r] = "guillotine"
    /\ LET n == Normalised(r)
       IN  /\ norm' = [norm EXCEPT ![r] = n]
           /\ theoreticalMax' = [theoreticalMax EXCEPT ![r] =
                 TheoreticalMax(Volume(<<n.containerX, n.containerY, n.containerZ>>),
                                Volume(<<n.itemX, n.itemY, n.itemZ>>))]
           /\ emptySpaces' = [emptySpaces EXCEPT ![r] =
                 << [x |-> 0, y |-> 0, z |-> 0, width |-> n.containerX,
                     height |-> n.containerY, depth |-> n.containerZ] >>]
           /\ orientations' = [orientations EXCEPT ![r] = GuillotineOrientations(n)]
    /\ placedItems' = [placedItems EXCEPT ![r] = <<>>]
    /\ itemIndex' = [itemIndex EXCEPT ![r] = 0]
    /\ pc' = [pc EXCEPT ![r] = "Selecting"]
    /\ UNCHANGED <<combVars, splitVars>>
    /\ UNCHANGED <<engine, containerDims, itemDims, containerUnit, itemUnit,
                   container, best, utilization>>

\* the while condition; maxIterations = theoreticalMax * 5, itemIndex counts
\* the iterations
GuillotineLoopGuard(r) ==
    /\ Len(emptySpaces[r]) > 0
    /\ itemIndex[r] < theoreticalMax[r] * 5
    /\ Len(placedItems[r]) < theoreticalMax[r]

\* One iteration of the while loop: sort, best placement over all spaces,
\* break without one; the bounds re-check, which drops the space and continues;
\* else the PlacedItem, the split and, every 20th iteration, the cleanup.
GuillotineStep(r) ==
    /\ pc[r] = "Selecting"
    /\ engine[r] = "guillotine"
    /\ GuillotineLoopGuard(r)
    /\ itemIndex' = [itemIndex EXCEPT ![r] = @ + 1]
    /\ LET iterations == itemIndex[r] + 1
           sorted == SortSpaces(emptySpaces[r])
           bestPlacement == FindBestPlacement(sorted, orientations[r])
           space == sorted[bestPlacement.spaceIndex]
           dims == bestPlacement.orientation.dims
           itemPlacement == [x |-> space.x, y |-> space.y, z |-> space.z,
                             w |-> dims[1], h |-> dims[2], d |-> dims[3]]
           placed == [ position |-> << 2 * space.x + dims[1] - norm[r].containerX,
                                       2 * space.y + dims[2] - norm[r].containerY,
                                       2 * space.z + dims[3] - norm[r].containerZ >>,
                       dimensions |-> dims,
                       rotation |-> bestPlacement.orientation.rotation,
                       rotated |-> bestPlacement.orientation.rotated ]
           afterSplit == RemoveAt(sorted, bestPlacement.spaceIndex)
                           \o splitSpace(space, itemPlacement)
       IN  IF ~bestPlacement.found
           THEN /\ emptySpaces' = [emptySpaces EXCEPT ![r] = sorted]
                /\ pc' = [pc EXCEPT ![r] = "Exhausted"]
                /\ UNCHANGED placedItems
           ELSE IF ~isValidPosition(norm[r], itemPlacement)
           THEN /\ emptySpaces' = [emptySpaces EXCEPT ![r] =
                                      RemoveAt(sorted, bestPlacement.spaceIndex)]
                /\ UNCHANGED <<pc, placedItems>>
           ELSE /\ placedItems' = [placedItems EXCEPT ![r] = Append(@, placed)]
                /\ emptySpaces' = [emptySpaces EXCEPT ![r] =
                      IF iterations % 20 = 0
                      THEN cleanupSpaces(afterSplit, orientations[r])
                      ELSE afterSplit]
                /\ UNCHANGED pc
    /\ UNCHANGED <<combVars, splitVars>>
    /\ UNCHANGED <<engine, containerDims, itemDims, containerUnit, itemUnit,
                   norm, theoreticalMax, orientations, container, best,
                   utilization>>

\* the while condition fails: return placedItems
GuillotineReturn(r) ==
    /\ pc[r] = "Selecting"
    /\ engine[r] = "guillotine"
    /\ ~GuillotineLoopGuard(r)
    /\ pc' = [pc EXCEPT ![r] = "Exhausted"]
    /\ UNCHANGED <<combVars, splitVars>>
    /\ UNCHANGED <<engine, containerDims, itemDims, containerUnit, itemUnit,
                   norm, theoreticalMax, orientations, container, itemIndex,
                   best, placedItems, emptySpaces, utilization>>

-----------------------------------------------------------------------------
\* calculateSpaceUtilization

\* Math.round(q * 100) / 100 for q = (part / whole) * 100, as a whole number of
\* hundredths of a percent; the quotient is taken two decimal digits at a time.
RoundedPercent(part, whole) ==
    LET units == (part * 100) \div whole
        r1 == (part * 100) % whole
        cents == (r1 * 100) \div whole
        r2 == (r1 * 100) % whole
    IN  units * 100 + cents + (IF 2 * r2 >= whole THEN 1 ELSE 0)

\* Mutant of calculateSpaceUtilization: the caller's magnitudes, not normalised
calculateSpaceUtilizationRaw(cDims, iDims, placed, cUnit, iUnit) ==
    RoundedPercent(Len(placed) * Volume(iDims), Volume(cDims))

calculateSpaceUtilization(cDims, iDims, placed, cUnit, iUnit) ==
    LET containerVolume == Volume(ConvertAll(cDims, cUnit))
        itemVolume == Volume(ConvertAll(iDims, iUnit))
        totalItemsVolume == Len(placed) * itemVolume
    IN  IF containerVolume > 0 THEN RoundedPercent(totalItemsVolume, containerVolume)
        ELSE IF containerVolume < 0
             THEN RoundedPercent(-totalItemsVolume, -containerVolume)
        ELSE IF totalItemsVolume = 0 THEN NaN
        ELSE Infinity

\* The caller of a finished run measures it (ThreeDViewer: the arrangement, then
\* setSpaceUtilization(calculateSpaceUtilization(...)) with the same arguments).
Measure(r) ==
    /\ pc[r] = "Exhausted"
    /\ utilization' = [utilization EXCEPT ![r] =
          calculateSpaceUtilization(containerDims[r], itemDims[r], placedItems[r],
                                    containerUnit[r], itemUnit[r])]
    /\ pc' = [pc EXCEPT ![r] = "Measured"]
    /\ UNCHANGED <<combVars, splitVars>>
    /\ UNCHANGED <<engine, containerDims, itemDims, containerUnit, itemUnit,
                   norm, theoreticalMax, orientations, container, itemIndex,
                   best, placedItems, emptySpaces>>

\* the run has returned its list
Returned(r) == pc[r] \in {"Exhausted", "Measured"}

-----------------------------------------------------------------------------
\* The OptimumCombination component
\*
\* A dimensions text is modelled by the list of numbers that
\* dimStr.split('x').map(d => parseFloat(d.trim())) makes of it; <<>> is the
\* empty string, whose split has one part, which parses to NaN.  The weight text
\* is <<>> (empty) or <<n>> (the digits of n).  Numbers are naturals; NaN is the
\* one value outside them.  Unit volumes are positive or NaN.

\* JavaScript *, + and <= on numbers that may be NaN
Times(a, b) == IF isNaN(a) \/ isNaN(b) THEN NaN ELSE a * b
Plus(a, b) == IF isNaN(a) \/ isNaN(b) THEN NaN ELSE a + b
LessOrEqual(a, b) == ~isNaN(a) /\ ~isNaN(b) /\ a <= b

\* dimStr.split('x').map(parseFloat)
SplitParse(dimStr) == IF dimStr = <<>> THEN <<NaN>> ELSE dimStr

\* parseDimensions throws unless the text has exactly three parts; a part that
\* is not a number is not rejected
parseDimensionsThrows(dimStr) == Len(SplitParse(dimStr)) # 3

parseDimensions(dimStr) ==
    LET dims == SplitParse(dimStr) IN <<dims[1], dims[2], dims[3]>>

calculateVolume(dims) == Times(Times(dims[1], dims[2]), dims[3])

\* parseFloat(masterCartonWeight) of a non-empty text
parseFloat(text) == text[1]

\* products.map(product => ({...product, quantity: 1, ...}))
SeedProduct(product) ==
    [ unitWeight |-> product.unitWeight,
      unitCartonDimensions |-> product.unitCartonDimensions,
      quantity |-> 1,
      totalWeight |-> product.unitWeight,
      totalVolume |-> calculateVolume(parseDimensions(product.unitCartonDimensions)) ]

\* result.reduce((sum, p) => sum + p.totalWeight, 0), and the same of totalVolume
SumTotalWeight(list) ==
    LET Sum[k \in 0..Len(list)] ==
            IF k = 0 THEN 0 ELSE Plus(Sum[k - 1], list[k].totalWeight)
    IN  Sum[Len(list)]

SumTotalVolume(list) ==
    LET Sum[k \in 0..Len(list)] ==
            IF k = 0 THEN 0 ELSE Plus(Sum[k - 1], list[k].totalVolume)
    IN  Sum[Len(list)]

\* one entry of efficiencyScores; efficiency = unitWeight / unitVolume is kept as
\* the pair it is the quotient of (index counts from 1 here, from 0 in the source)
EfficiencyScore(list, index) ==
    [ index |-> index,
      unitWeight |-> list[index].unitWeight,
      unitVolume |-> calculateVolume(parseDimensions(list[index].unitCartonDimensions)) ]

\* the comparator (a, b) => b.efficiency - a.efficiency, by its sign; a NaN
\* difference counts as 0
CompareEfficiency(a, b) ==
    IF isNaN(a.unitVolume) \/ isNaN(b.unitVolume) THEN 0
    ELSE b.unitWeight * a.unitVolume - a.unitWeight * b.unitVolume

\* Array.prototype.sort is stable
InsertScore(sorted, s) ==
    LET n == Cardinality({i \in 1..Len(sorted) : CompareEfficiency(sorted[i], s) <= 0})
    IN  SubSeq(sorted, 1, n) \o <<s>> \o SubSeq(sorted, n + 1, Len(sorted))

SortScores(scores) ==
    LET Sorted[k \in 0..Len(scores)] ==
            IF k = 0 THEN <<>> ELSE InsertScore(Sorted[k - 1], scores[k])
    IN  Sorted[Len(scores)]

\* Mutant of CanAdd: the volume total is not compared
CanAddByWeightOnly(score) ==
    LessOrEqual(Plus(totalWeight, score.unitWeight), maxWeight)

\* the condition of the for body: one more unit keeps both totals in budget
CanAdd(score) ==
    /\ LessOrEqual(Plus(totalWeight, score.unitWeight), maxWeight)
    /\ LessOrEqual(Plus(totalVolume, score.unitVolume), masterVolume)

\* Mutant of AddUnit: the entry's own totals are left as they were
AddUnitQuantityOnly(list, score) ==
    [list EXCEPT ![score.index] = [@ EXCEPT !.quantity = @ + 1]]

\* result[index].quantity++ and the two totals of that entry
AddUnit(list, score) ==
    [list EXCEPT ![score.index] =
        [@ EXCEPT !.quantity = @ + 1,
                  !.totalWeight = Plus(@, score.unitWeight),
                  !.totalVolume = Plus(@, score.unitVolume)]]

\* ---- what the user can upload and type ----

MaxProducts == 2
MaxUnitWeight == 2
MaxMasterLength == 4
MaxMasterWeight == 4

Product(weight, dimStr) == [unitWeight |-> weight, unitCartonDimensions |-> dimStr]

\* spreadsheet rows: cartons "1x1x1" and "1x1x2" of each weight, a weightless
\* one, one with a part missing ("1x1") and one with a part that is not a
\* number ("ax1x1")
ProductRows ==
    { Product(w, d) : w \in 1..MaxUnitWeight, d \in { <<1, 1, 1>>, <<1, 1, 2>> } }
      \cup { Product(0, <<1, 1, 1>>), Product(1, <<1, 1>>), Product(1, <<NaN, 1, 1>>) }

\* candidates A (weight 5, volume 2) and B (weight 3, volume 1), to be packed
\* into a master carton of volume 10 and maximum weight 20
ScenarioProducts == << Product(5, <<1, 1, 2>>), Product(3, <<1, 1, 1>>) >>
ScenarioMasterDims == <<1, 2, 5>>
ScenarioMasterWeight == <<20>>

Sheets ==
    UNION { [1..n -> ProductRows] : n \in 0..MaxProducts } \cup { ScenarioProducts }

\* a chosen file: a workbook XLSX can read, with its rows, or one it cannot
Files ==
    { [readable |-> TRUE, rows |-> s] : s \in Sheets }
      \cup { [readable |-> FALSE, rows |-> <<>>] }

MasterDimTexts ==
    { <<1, 1, k>> : k \in 1..MaxMasterLength }
      \cup { <<1, 1>>, <<NaN, 1, 1>>, ScenarioMasterDims }

MasterWeightTexts ==
    { <<n>> : n \in 0..MaxMasterWeight } \cup { ScenarioMasterWeight }

\* the handler's locals outside a call
NoLocals ==
    /\ masterVolume = 0
    /\ maxWeight = 0
    /\ result = <<>>
    /\ totalWeight = 0
    /\ totalVolume = 0
    /\ efficiencyScores = <<>>
    /\ improved = FALSE
    /\ scanIndex = 0

\* the component after its first render
CombInit ==
    /\ products = <<>>
    /\ masterCartonDims = <<>>
    /\ masterCartonWeight = <<>>
    /\ optimizedCombination = <<>>
    /\ loading = FALSE
    /\ toast = "none"
    /\ cpc = "idle"
    /\ NoLocals

locals == <<masterVolume, maxWeight, result, totalWeight, totalVolume,
            efficiencyScores, improved, scanIndex>>

\* ---- the user's edits; each field is filled in once ----

\* handleFileUpload with its reader.onload
handleFileUpload(file) ==
    /\ cpc = "idle"
    /\ products = <<>>
    /\ IF file.readable
       THEN /\ products' = file.rows
            /\ toast' = "Loaded products"
       ELSE /\ toast' = "Error reading Excel file"
            /\ UNCHANGED products
    /\ UNCHANGED <<masterCartonDims, masterCartonWeight, optimizedCombination,
                   loading, cpc, locals>>
    /\ UNCHANGED <<packVars, splitVars>>

\* onChange of the dimensions field
setMasterCartonDims(text) ==
    /\ cpc = "idle"
    /\ masterCartonDims = <<>>
    /\ masterCartonDims' = text
    /\ UNCHANGED <<products, masterCartonWeight, optimizedCombination, loading,
                   toast, cpc, locals>>
    /\ UNCHANGED <<packVars, splitVars>>

\* onChange of the maximum-weight field
setMasterCartonWeight(text) ==
    /\ cpc = "idle"
    /\ masterCartonWeight = <<>>
    /\ masterCartonWeight' = text
    /\ UNCHANGED <<products, masterCartonDims, optimizedCombination, loading,
                   toast, cpc, locals>>
    /\ UNCHANGED <<packVars, splitVars>>

\* onChange of the dimensions field once more, after a combination has been
\* stored: the text is replaced
retypeMasterCartonDims(text) ==
    /\ cpc = "idle"
    /\ masterCartonDims # <<>>
    /\ optimizedCombination # <<>>
    /\ masterCartonDims' = text
    /\ UNCHANGED <<products, masterCartonWeight, optimizedCombination, loading,
                   toast, cpc, locals>>
    /\ UNCHANGED <<packVars, splitVars>>

\* ---- optimizeCombination, step by step ----

\* the click (the button is enabled while not loading and products are loaded),
\* the guard, and setLoading(true)
optimizeCombination ==
    /\ cpc = "idle"
    /\ ~loading
    /\ Len(products) > 0
    /\ IF Len(products) = 0 \/ masterCartonDims = <<>> \/ masterCartonWeight = <<>>
       THEN /\ toast' = "Please upload products file and enter master carton specifications"
            /\ UNCHANGED <<loading, cpc>>
       ELSE /\ loading' = TRUE
            /\ cpc' = "try"
            /\ UNCHANGED toast
    /\ UNCHANGED <<products, masterCartonDims, masterCartonWeight,
                   optimizedCombination, locals>>
    /\ UNCHANGED <<packVars, splitVars>>

\* the try block down to `let improved = true`
SeedResult ==
    /\ cpc = "try"
    /\ IF \/ parseDimensionsThrows(masterCartonDims)
          \/ \E i \in 1..Len(products) :
                parseDimensionsThrows(products[i].unitCartonDimensions)
       THEN /\ cpc' = "catch"
            /\ UNCHANGED locals
       ELSE LET seeded == [i \in 1..Len(products) |-> SeedProduct(products[i])]
                scores == [i \in 1..Len(products) |-> EfficiencyScore(products, i)]
            IN  /\ masterVolume' = calculateVolume(parseDimensions(masterCartonDims))
                /\ maxWeight' = parseFloat(masterCartonWeight)
                /\ result' = seeded
                /\ totalWeight' = SumTotalWeight(seeded)
                /\ totalVolume' = SumTotalVolume(seeded)
                /\ efficiencyScores' = SortScores(scores)
                /\ improved' = TRUE
                /\ cpc' = "while"
                /\ UNCHANGED scanIndex
    /\ UNCHANGED <<products, masterCartonDims, masterCartonWeight,
                   optimizedCombination, loading, toast>>
    /\ UNCHANGED <<packVars, splitVars>>

\* Mutant of WhileImproved: the flag is not lowered at the start of a pass
WhileImprovedNeverLowered ==
    /\ cpc = "while"
    /\ IF improved
       THEN /\ scanIndex' = 1
            /\ cpc' = "for"
            /\ UNCHANGED improved
       ELSE /\ cpc' = "store"
            /\ UNCHANGED <<improved, scanIndex>>
    /\ UNCHANGED <<masterVolume, maxWeight, result, totalWeight, totalVolume,
                   efficiencyScores>>
    /\ UNCHANGED <<products, masterCartonDims, masterCartonWeight,
                   optimizedCombination, loading, toast>>
    /\ UNCHANGED <<packVars, splitVars>>

\* while (improved) { improved = false; ...
WhileImproved ==
    /\ cpc = "while"
    /\ IF improved
       THEN /\ improved' = FALSE
            /\ scanIndex' = 1
            /\ cpc' = "for"
       ELSE /\ cpc' = "store"
            /\ UNCHANGED <<improved, scanIndex>>
    /\ UNCHANGED <<masterVolume, maxWeight, result, totalWeight, totalVolume,
                   efficiencyScores>>
    /\ UNCHANGED <<products, masterCartonDims, masterCartonWeight,
                   optimizedCombination, loading, toast>>
    /\ UNCHANGED <<packVars, splitVars>>

\* Mutant of ForEachScore: an added unit does not mark the pass as improved
ForEachScoreUnmarked ==
    /\ cpc = "for"
    /\ IF scanIndex > Len(efficiencyScores)
       THEN /\ cpc' = "while"
            /\ UNCHANGED <<result, totalWeight, totalVolume, improved, scanIndex>>
       ELSE LET score == efficiencyScores[scanIndex]
            IN  /\ IF CanAdd(score)
                   THEN /\ result' = AddUnit(result, score)
                        /\ totalWeight' = Plus(totalWeight, score.unitWeight)
                        /\ totalVolume' = Plus(totalVolume, score.unitVolume)
                        /\ UNCHANGED improved
                   ELSE UNCHANGED <<result, totalWeight, totalVolume, improved>>
                /\ scanIndex' = scanIndex + 1
                /\ UNCHANGED cpc
    /\ UNCHANGED <<masterVolume, maxWeight, efficiencyScores>>
    /\ UNCHANGED <<products, masterCartonDims, masterCartonWeight,
                   optimizedCombination, loading, toast>>
    /\ UNCHANGED <<packVars, splitVars>>

\* one turn of for (const {index, unitWeight, unitVolume} of efficiencyScores)
ForEachScore ==
    /\ cpc = "for"
    /\ IF scanIndex > Len(efficiencyScores)
       THEN /\ cpc' = "while"
            /\ UNCHANGED <<result, totalWeight, totalVolume, improved, scanIndex>>
       ELSE LET score == efficiencyScores[scanIndex]
            IN  /\ IF CanAdd(score)
                   THEN /\ result' = AddUnit(result, score)
                        /\ totalWeight' = Plus(totalWeight, score.unitWeight)
                        /\ totalVolume' = Plus(totalVolume, score.unitVolume)
                        /\ improved' = TRUE
                   ELSE UNCHANGED <<result, totalWeight, totalVolume, improved>>
                /\ scanIndex' = scanIndex + 1
                /\ UNCHANGED cpc
    /\ UNCHANGED <<masterVolume, maxWeight, efficiencyScores>>
    /\ UNCHANGED <<products, masterCartonDims, masterCartonWeight,
                   optimizedCombination, loading, toast>>
    /\ UNCHANGED <<packVars, splitVars>>

\* setOptimizedCombination(result); toast.success
StoreResult ==
    /\ cpc = "store"
    /\ optimizedCombination' = result
    /\ toast' = "Optimization complete!"
    /\ cpc' = "finally"
    /\ UNCHANGED <<products, masterCartonDims, masterCartonWeight, loading, locals>>
    /\ UNCHANGED <<packVars, splitVars>>

\* Mutant of CatchError: the stored combination is cleared
CatchErrorClears ==
    /\ cpc = "catch"
    /\ toast' = "Error during optimization"
    /\ cpc' = "finally"
    /\ optimizedCombination' = <<>>
    /\ UNCHANGED <<products, masterCartonDims, masterCartonWeight, loading, locals>>
    /\ UNCHANGED <<packVars, splitVars>>

\* catch (error) { toast.error }
CatchError ==
    /\ cpc = "catch"
    /\ toast' = "Error during optimization"
    /\ cpc' = "finally"
    /\ UNCHANGED <<products, masterCartonDims, masterCartonWeight,
                   optimizedCombination, loading, locals>>
    /\ UNCHANGED <<packVars, splitVars>>

\* finally { setLoading(false) }, and the call ends
FinallyDone ==
    /\ cpc = "finally"
    /\ loading' = FALSE
    /\ cpc' = "idle"
    /\ masterVolume' = 0
    /\ maxWeight' = 0
    /\ result' = <<>>
    /\ totalWeight' = 0
    /\ totalVolume' = 0
    /\ efficiencyScores' = <<>>
    /\ improved' = FALSE
    /\ scanIndex' = 0
    /\ UNCHANGED <<products, masterCartonDims, masterCartonWeight,
                   optimizedCombination, toast>>
    /\ UNCHANGED <<packVars, splitVars>>

-----------------------------------------------------------------------------
\* One commit of the guillotine engine on its own: splitSpace called on a free
\* space and the item placed at the space's corner, with lengths in ticks of
\* 0.005 cm, the resolution at which a length of 0.01 cm or less can be told
\* from no length at all.

FineTicksPerCm == 200

NoCall == [space |-> <<>>, item |-> <<>>]

\* a free space whose corner is at the container's corner or 1 cm into it on
\* each axis; an item of 1 cm or 2 cm edges that fits in it (canFit) and lies
\* at the space's corner; on each axis the space is as long as the item, or
\* 0.005 cm longer, or 1 cm longer
SplitCalls ==
    LET edges == {FineTicksPerCm, 2 * FineTicksPerCm}
        room == {0, 1, FineTicksPerCm}
    IN  { [ space |-> [x |-> at[1], y |-> at[2], z |-> at[3],
                       width |-> dims[1] + extra[1],
                       height |-> dims[2] + extra[2],
                       depth |-> dims[3] + extra[3]],
            item |-> [x |-> at[1], y |-> at[2], z |-> at[3],
                      w |-> dims[1], h |-> dims[2], d |-> dims[3]] ] :
          at \in {<<0, 0, 0>>, <<FineTicksPerCm, 0, FineTicksPerCm>>},
          dims \in {<<FineTicksPerCm, FineTicksPerCm, FineTicksPerCm>>,
                    <<2 * FineTicksPerCm, FineTicksPerCm, FineTicksPerCm>>},
          extra \in room \X room \X room }

SplitInit(calls) ==
    /\ splitCall \in calls
    /\ splitReturn = <<>>
    /\ splitPc = "call"

\* const newSpaces = splitSpace(space, itemPlacement)
splitSpaceCall ==
    /\ splitPc = "call"
    /\ splitCall # NoCall
    /\ splitReturn' = splitSpaceAt(splitCall.space, splitCall.item, FineTicksPerCm)
    /\ splitPc' = "returned"
    /\ UNCHANGED splitCall
    /\ UNCHANGED <<packVars, combVars>>

-----------------------------------------------------------------------------
Init == InitRuns({1}, Jobs) /\ CombInit /\ SplitInit({NoCall})

Next ==
    \/ \E r \in Runs : Initialize(r)
    \/ \E r \in Runs : Select(r)
    \/ \E r \in Runs : Place(r)
    \/ \E r \in Runs : Return(r)
    \/ \E r \in Runs : GuillotineInitialize(r)
    \/ \E r \in Runs : GuillotineStep(r)
    \/ \E r \in Runs : GuillotineReturn(r)
    \/ \E r \in Runs : Measure(r)

Spec == Init /\ [][Next]_vars

\* Two runs side by side, their steps interleaved in any order

PairRequests ==
    { Request(<<2, 4, 4>>, "cm", <<1, 1, 3>>, "cm"),
      Request(<<4, 4, 4>>, "cm", <<2, 2, 2>>, "cm"),
      Request(<<4, 2, 4>>, "cm", <<3, 1, 2>>, "cm"),
      Request(<<40, 20, 40>>, "mm", <<2, 2, 2>>, "cm"),
      Request(<<2, 2, 2>>, "cm", <<3, 3, 3>>, "cm"),
      Request(<<4, 4, 2>>, "cm", <<20, 30, 10>>, "mm"),
      Request(<<4, 4, 2>>, "cm", <<2, 3, 1>>, "cm") }

PairJobs == PairRequests \X {"extremePoint", "guillotine"}

InitTwo == InitRuns({1, 2}, PairJobs) /\ CombInit /\ SplitInit({NoCall})

SpecTwo == InitTwo /\ [][Next]_vars

\* One run whose request may have a zero or negative dimension

InitAny == InitRuns({1}, AnyJobs) /\ CombInit /\ SplitInit({NoCall})

SpecAny == InitAny /\ [][Next]_vars

\* The component alone: no packing run is under way

InitComb == InitRuns({}, Jobs) /\ CombInit /\ SplitInit({NoCall})

NextComb ==
    \/ \E file \in Files : handleFileUpload(file)
    \/ \E text \in MasterDimTexts : setMasterCartonDims(text)
    \/ \E text \in MasterWeightTexts : setMasterCartonWeight(text)
    \/ optimizeCombination
    \/ SeedResult
    \/ WhileImproved
    \/ ForEachScore
    \/ StoreResult
    \/ CatchError
    \/ FinallyDone

SpecComb == InitComb /\ [][NextComb]_vars

\* The handler is one synchronous call: once entered, the event loop runs it to
\* its end before anything else happens.
HandlerStep ==
    SeedResult \/ WhileImproved \/ ForEachScore \/ StoreResult \/ CatchError
        \/ FinallyDone

\* Termination is checked for the sheets of one and of two rows, the scenario
\* sheet and the unreadable file
ShortFiles == { f \in Files : Len(f.rows) <= 2 }

NextCombFair ==
    \/ \E file \in ShortFiles : handleFileUpload(file)
    \/ \E text \in MasterDimTexts : setMasterCartonDims(text)
    \/ \E text \in MasterWeightTexts : setMasterCartonWeight(text)
    \/ optimizeCombination
    \/ SeedResult
    \/ WhileImproved
    \/ ForEachScore
    \/ StoreResult
    \/ CatchError
    \/ FinallyDone

SpecCombFair == InitComb /\ [][NextCombFair]_vars /\ WF_vars(HandlerStep)

\* The component when the dimensions field is typed over between two clicks
NextCombAgain ==
    \/ \E file \in ShortFiles : handleFileUpload(file)
    \/ \E text \in MasterDimTexts : setMasterCartonDims(text)
    \/ \E text \in MasterWeightTexts : setMasterCartonWeight(text)
    \/ \E text \in MasterDimTexts : retypeMasterCartonDims(text)
    \/ optimizeCombination
    \/ SeedResult
    \/ WhileImproved
    \/ ForEachScore
    \/ StoreResult
    \/ CatchError
    \/ FinallyDone

SpecCombAgain == InitComb /\ [][NextCombAgain]_vars

\* Guillotine runs beside one call of splitSpace at the fine resolution
SplitRequests ==
    { Request(<<4, 4, 2>>, "cm", <<2, 3, 1>>, "cm"),
      Request(<<4, 3, 2>>, "cm", <<2, 1, 1>>, "cm"),
      Request(<<6, 4, 4>>, "cm", <<1, 1, 1>>, "cm"),
      Request(<<40, 20, 40>>, "mm", <<2, 2, 2>>, "cm") }

InitSplit == InitRuns({1}, SplitRequests \X {"guillotine"}) /\ CombInit /\ SplitInit(SplitCalls)

NextSplit ==
    \/ \E r \in Runs : GuillotineInitialize(r)
    \/ \E r \in Runs : GuillotineStep(r)
    \/ \E r \in Runs : GuillotineReturn(r)
    \/ splitSpaceCall

SpecSplit == InitSplit /\ [][NextSplit]_vars

-----------------------------------------------------------------------------
\* Properties of the returned PlacedItem list

\* The box of a PlacedItem on returned axis i, doubled like position:
\* position[i] - dimensions[i]/2 .. position[i] + dimensions[i]/2
BoxLow(p, i) == p.position[i] - p.dimensions[i]
BoxHigh(p, i) == p.position[i] + p.dimensions[i]

\* the two boxes share a region of positive volume
Overlap(p, q) == \A i \in 1..3 : BoxLow(p, i) < BoxHigh(q, i) /\ BoxLow(q, i) < BoxHigh(p, i)

\* the normalised container triple, in the caller's axis order
ContainerTriple(r) == <<norm[r].containerX, norm[r].containerY, norm[r].containerZ>>
ItemTriple(r) == <<norm[r].itemX, norm[r].itemY, norm[r].itemZ>>

\* C1: no two PlacedItems of a run of the extreme-point getOptimalBinPacking
\* have boxes with a positive-volume intersection.
C1_NoOverlap ==
    \A r \in Runs : engine[r] = "extremePoint" =>
        \A i, j \in 1..Len(placedItems[r]) :
            i < j => ~Overlap(placedItems[r][i], placedItems[r][j])

\* C2: every PlacedItem's box lies inside the container on every returned
\* axis i: position[i] +/- dimensions[i]/2 within +/- containerDims[i]/2.
C2_InsideContainer ==
    \A r \in Runs : engine[r] = "extremePoint" =>
        \A k \in 1..Len(placedItems[r]) : \A i \in 1..3 :
            /\ BoxLow(placedItems[r][k], i) >= -ContainerTriple(r)[i]
            /\ BoxHigh(placedItems[r][k], i) <= ContainerTriple(r)[i]

\* the orientations of a triple, as a set
TriplePermutations(t) ==
    { <<t[p[1]], t[p[2]], t[p[3]]>> :
        p \in { <<1, 2, 3>>, <<1, 3, 2>>, <<2, 1, 3>>,
                <<2, 3, 1>>, <<3, 1, 2>>, <<3, 2, 1>> } }

\* at least one orientation has every axis within the container's
FitsSomeOrientation(r) ==
    \E o \in TriplePermutations(ItemTriple(r)) : \A i \in 1..3 : o[i] <= ContainerTriple(r)[i]

\* C4: in every state of a pack run (both engines) the number of placed items
\* is at most floor(containerVolume / itemVolume) of the normalised dimensions,
\* that is count * itemVolume <= containerVolume; container (50,30,40) with
\* item (10,10,5) never holds more than 120.
C4_CountWithinTheoreticalMax ==
    \A r \in Runs : pc[r] # "Start" =>
        /\ Len(placedItems[r]) * Volume(ItemTriple(r)) <= Volume(ContainerTriple(r))
        /\ (ContainerTriple(r) = <<100, 60, 80>> /\ ItemTriple(r) = <<20, 20, 10>>)
              => Len(placedItems[r]) <= 120

\* a run has returned with its ceiling of at least four items reached
C4_Witness ==
    \E r \in Runs :
        /\ Returned(r)
        /\ theoreticalMax[r] >= 4
        /\ Len(placedItems[r]) = theoreticalMax[r]

\* C5: when some orientation of the item fits the container, the returned
\* list of getOptimalBinPacking is not empty and its first item was committed
\* at the extreme point (0,0,0), the container origin.
C5_FittingItemIsPlacedAtOrigin ==
    \A r \in Runs :
        (engine[r] = "extremePoint" /\ Returned(r) /\ FitsSomeOrientation(r)) =>
            /\ Len(placedItems[r]) >= 1
            /\ container[r].items[1].position = <<0, 0, 0>>
            /\ \A i \in 1..3 :
                  BoxLow(placedItems[r][1], i) =
                     -(<<norm[r].containerX, norm[r].containerZ, norm[r].containerY>>[i])

\* a returned run whose item fits only when rotated
C5_Witness ==
    \E r \in Runs :
        /\ engine[r] = "extremePoint" /\ Returned(r) /\ FitsSomeOrientation(r)
        /\ \E i \in 1..3 : ItemTriple(r)[i] > ContainerTriple(r)[i]
        /\ Len(placedItems[r]) >= 1
        /\ placedItems[r][1].rotated

\* C6: when the item's volume exceeds the container's, getOptimalBinPacking
\* returns an empty list and commits nothing: the grid holds no occupied cell
\* and the extreme-point list is still the origin alone.
C6_OversizeVolumeReturnsEmpty ==
    \A r \in Runs :
        (engine[r] = "extremePoint" /\ pc[r] # "Start"
           /\ Volume(ItemTriple(r)) > Volume(ContainerTriple(r))) =>
            /\ placedItems[r] = <<>>
            /\ pc[r] # "Placing"
            /\ container[r].items = <<>>
            /\ container[r].space = {}
            /\ container[r].extremePoints = << <<0, 0, 0>> >>

\* such a run has returned
C6_Witness ==
    \E r \in Runs :
        /\ engine[r] = "extremePoint" /\ Returned(r)
        /\ Volume(ItemTriple(r)) > Volume(ContainerTriple(r))
        /\ placedItems[r] = <<>>

\* C7: when no orientation of the item fits the container, the run ends in
\* Exhausted with no placement: it never reaches Placing, it makes at most one
\* selection pass, and that pass leaves the loop.
C7_NoFitReturnsEmpty ==
    \A r \in Runs :
        (engine[r] = "extremePoint" /\ pc[r] # "Start" /\ ~FitsSomeOrientation(r)) =>
            /\ placedItems[r] = <<>>
            /\ container[r].items = <<>>
            /\ pc[r] # "Placing"
            /\ itemIndex[r] <= 1
            /\ (itemIndex[r] = 1 => Returned(r))

\* container (10,10,10), item (11,1,1): theoreticalMax is 90, the first pass
\* finds no candidate and the run returns the empty list
C7_Witness ==
    \E r \in Runs :
        /\ engine[r] = "extremePoint" /\ Returned(r)
        /\ ContainerTriple(r) = <<20, 20, 20>> /\ ItemTriple(r) = <<22, 2, 2>>
        /\ theoreticalMax[r] = 90 /\ itemIndex[r] = 1
        /\ placedItems[r] = <<>>

RECURSIVE GCD(_, _)
GCD(a, b) == IF b = 0 THEN a ELSE GCD(b, a % b)

\* C9: the utilization measured for a returned list is between 0 and 100 and
\* is 100 * placedCount * itemVolume / containerVolume of the normalised
\* dimensions, rounded to two decimals: with u the result in hundredths,
\* u - 1/2 <= 10000 * count * itemVolume / containerVolume < u + 1/2.
C9_UtilizationIsRoundedRatio ==
    \A r \in Runs : pc[r] = "Measured" =>
        LET part == Len(placedItems[r]) * Volume(ItemTriple(r))
            whole == Volume(ContainerTriple(r))
            g == GCD(whole, part)
            u == utilization[r]
        IN  /\ 0 <= u /\ u <= 10000
            /\ (2 * u - 1) * (whole \div g) <= 20000 * (part \div g)
            /\ 20000 * (part \div g) < (2 * u + 1) * (whole \div g)

\* a measured run in mixed units with a utilization strictly between 0 and 100
\* that is not a whole percentage
C9_Witness ==
    \E r \in Runs :
        /\ pc[r] = "Measured"
        /\ containerUnit[r] # itemUnit[r]
        /\ Len(placedItems[r]) >= 1
        /\ utilization[r] > 0 /\ utilization[r] < 10000
        /\ utilization[r] % 100 # 0

\* the two runs were given the same arguments
SameInput(a, b) ==
    /\ engine[a] = engine[b]
    /\ containerDims[a] = containerDims[b] /\ containerUnit[a] = containerUnit[b]
    /\ itemDims[a] = itemDims[b] /\ itemUnit[a] = itemUnit[b]

\* everything a run has computed so far
RunState(r) ==
    <<norm[r], theoreticalMax[r], orientations[r], container[r], best[r],
      placedItems[r], emptySpaces[r], utilization[r]>>

-----------------------------------------------------------------------------
\* Properties of the stored combination

\* sum of quantity x unit weight, and of quantity x unit volume
CombinationWeight(list) ==
    LET Sum[k \in 0..Len(list)] ==
            IF k = 0 THEN 0
            ELSE Plus(Sum[k - 1], Times(list[k].quantity, list[k].unitWeight))
    IN  Sum[Len(list)]

CombinationVolume(list) ==
    LET Sum[k \in 0..Len(list)] ==
            IF k = 0 THEN 0
            ELSE Plus(Sum[k - 1],
                      Times(list[k].quantity,
                            calculateVolume(parseDimensions(list[k].unitCartonDimensions))))
    IN  Sum[Len(list)]

\* a total is over a budget when both are numbers and the total is the larger
Exceeds(total, budget) == ~isNaN(total) /\ ~isNaN(budget) /\ total > budget

\* C3: for every candidate list and every budget, the combination that
\* optimizeCombination produces has a total volume that does not exceed the
\* budget volume and a total weight that does not exceed the budget weight.
C3_WithinBudget ==
    optimizedCombination # <<>> =>
        /\ ~Exceeds(CombinationVolume(optimizedCombination),
                    calculateVolume(parseDimensions(masterCartonDims)))
        /\ ~Exceeds(CombinationWeight(optimizedCombination),
                    parseFloat(masterCartonWeight))

\* the entry of efficiencyScores for the candidate at index i of result
ScoreOf(i) ==
    efficiencyScores[CHOOSE k \in 1..Len(efficiencyScores) : efficiencyScores[k].index = i]

\* candidate s has the strictly higher efficiency of the two
HigherEfficiency(s, t) == CompareEfficiency(t, s) > 0

\* C10: optimizeCombination favours the candidate of higher efficiency: a
\* candidate is given one more unit only when every candidate of strictly
\* higher efficiency can no longer take one more unit within the volume and
\* weight budget (in the scenario, A gets a unit only once B no longer fits).
C10_HigherEfficiencyFirst ==
    [][ \A i \in 1..Len(result) :
          ( /\ cpc = "for"
            /\ cpc' = "for"
            /\ result'[i].quantity > result[i].quantity )
          => \A k \in 1..Len(efficiencyScores) :
                HigherEfficiency(efficiencyScores[k], ScoreOf(i))
                    => ~CanAdd(efficiencyScores[k]) ]_vars

-----------------------------------------------------------------------------
\* Properties of invalid requests

\* the request of run r has a zero or a negative dimension
InvalidInput(r) ==
    \E i \in 1..3 : containerDims[r][i] <= 0 \/ itemDims[r][i] <= 0

\* C11: a pack request with a zero or negative container or item dimension is
\* rejected before the engine starts: the run never enters its initialising or
\* placement steps and never returns a placement list.
C11_InvalidInputRejected ==
    \A r \in Runs : InvalidInput(r) => pc[r] = "Start"

-----------------------------------------------------------------------------
\* Properties of optimizeCombination's input handling and of its loop

\* a dimensions text that is not exactly three numeric parts
Malformed(dimStr) ==
    \/ Len(SplitParse(dimStr)) # 3
    \/ \E i \in 1..Len(SplitParse(dimStr)) : isNaN(SplitParse(dimStr)[i])

MalformedInput ==
    \/ Malformed(masterCartonDims)
    \/ \E i \in 1..Len(products) : Malformed(products[i].unitCartonDimensions)

\* C12: when the master carton dimensions or any product's unit carton
\* dimensions are malformed, optimizeCombination ends in the error outcome: no
\* combination is stored and no success is reported.
C12_MalformedRejected ==
    MalformedInput =>
        /\ optimizedCombination = <<>>
        /\ toast # "Optimization complete!"

\* C13: the greedy while-loop of optimizeCombination terminates: a step that
\* adds a unit strictly increases the running volume (unit volumes are
\* positive), never lowers the running weight and keeps both within the
\* budget, and a loop that has been entered is eventually left.
C13_GreedyLoopTerminates ==
    /\ [][ (cpc = "for" /\ result' # result) =>
              /\ totalVolume' > totalVolume
              /\ totalWeight' >= totalWeight
              /\ totalVolume' <= masterVolume
              /\ totalWeight' <= maxWeight ]_vars
    /\ (cpc = "while" ~> cpc = "store")

\* the loop has been left after a candidate received at least two more units
C13_Witness ==
    /\ cpc = "store"
    /\ \E i \in 1..Len(result) : result[i].quantity >= 3

-----------------------------------------------------------------------------
\* Properties of a run's progress

\* the positions of a function body from which its next step can be taken
CanStep(r) == pc[r] \in {"Start", "Selecting", "Placing"}

\* C14: every pack run terminates in Exhausted for all inputs: a run that has
\* not returned can always take its next step, the extreme-point loop starts at
\* most theoreticalMax selection passes and the guillotine loop at most
\* 5 x theoreticalMax iterations.
C14_RunsReachExhausted ==
    \A r \in Runs :
        /\ ~Returned(r) => CanStep(r)
        /\ (engine[r] = "extremePoint" /\ pc[r] # "Start")
              => itemIndex[r] <= Max(theoreticalMax[r], 0)
        /\ (engine[r] = "guillotine" /\ pc[r] # "Start")
              => itemIndex[r] <= 5 * theoreticalMax[r]

-----------------------------------------------------------------------------
\* Properties of the unit normalisation

\* cm is value x factor, the factor written as the fraction num / den
IsProduct(cm, value, num, den) == cm * den = value * num

\* value x 0.1 for mm, x 1 for cm, x 2.54 for in, x 30.48 for ft, x 100 for m,
\* and the value itself under any other tag
InCentimetres(cm, value, unit) ==
    IF unit = "mm" THEN IsProduct(cm, value, 1, 10)
    ELSE IF unit = "cm" THEN IsProduct(cm, value, 1, 1)
    ELSE IF unit = "in" THEN IsProduct(cm, value, 254, 100)
    ELSE IF unit = "ft" THEN IsProduct(cm, value, 3048, 100)
    ELSE IF unit = "m" THEN IsProduct(cm, value, 100, 1)
    ELSE cm = value

CentimetreTwin(a, b) ==
    /\ engine[a] = engine[b]
    /\ containerUnit[b] = "cm" /\ itemUnit[b] = "cm"
    /\ \A i \in 1..3 :
          /\ InCentimetres(containerDims[b][i], containerDims[a][i], containerUnit[a])
          /\ InCentimetres(itemDims[b][i], itemDims[a][i], itemUnit[a])

-----------------------------------------------------------------------------
\* Properties of the orientation list

\* C17: getAllOrientations returns exactly the distinct permutations of the
\* item's three lengths, none twice: 6 entries when the lengths all differ, 3
\* when exactly two are equal, 1 for a cube; the natural orientation is first.
C17_DistinctOrientations ==
    \A r \in Runs : (engine[r] = "extremePoint" /\ pc[r] # "Start") =>
        LET o == orientations[r]
            t == ItemTriple(r)
            lengths == Cardinality({t[1], t[2], t[3]})
        IN  /\ \A i \in 1..Len(o) : \A j \in 1..Len(o) : o[i] = o[j] => i = j
            /\ {o[i] : i \in 1..Len(o)} = TriplePermutations(t)
            /\ Len(o) = (IF lengths = 3 THEN 6 ELSE IF lengths = 2 THEN 3 ELSE 1)
            /\ o[1] = t

\* lists of six, of three and of one orientation are all met; this one has three
C17_Witness ==
    \E r \in Runs :
        /\ engine[r] = "extremePoint" /\ pc[r] # "Start"
        /\ ItemTriple(r) = <<2, 1, 2>>
        /\ Len(orientations[r]) = 3

-----------------------------------------------------------------------------
\* Properties of runs side by side

\* The list getOptimalBinPacking returns for run r's arguments when the call
\* runs from its first line to its last with no other call in between.
AloneResult(r) ==
    LET n == Normalised(r)
        tmax == TheoreticalMax(Volume(<<n.containerX, n.containerY, n.containerZ>>),
                               Volume(<<n.itemX, n.itemY, n.itemZ>>))
        orients == getAllOrientations(<<n.itemX, n.itemY, n.itemZ>>)
        Pass[k \in 0..tmax] ==
            IF k = 0
            THEN [c |-> createContainer(n.containerX, n.containerZ, n.containerY),
                  placed |-> <<>>, open |-> TRUE]
            ELSE LET prev == Pass[k - 1]
                     sorted == [prev.c EXCEPT !.extremePoints = SortExtremePoints(@)]
                     found == SelectBest(sorted, orients)
                     item == [width |-> n.itemX, height |-> n.itemY,
                              depth |-> n.itemZ, id |-> k - 1]
                 IN  IF ~prev.open THEN prev
                     ELSE IF ~found.found THEN [prev EXCEPT !.open = FALSE]
                     ELSE [c |-> addItemToContainer(sorted, item, found.position,
                                                    found.orientation),
                           placed |-> Append(prev.placed,
                                             MakePlacedItem(n, found.position,
                                                            found.orientation)),
                           open |-> TRUE]
    IN  Pass[tmax].placed

\* what belongs to run r: its grid, extreme points, placed list and position
OwnState(r) ==
    <<pc[r], container[r], placedItems[r], itemIndex[r], best[r], emptySpaces[r],
      norm[r], theoreticalMax[r], orientations[r], utilization[r]>>

\* C18: independent pack runs share no state: a step changes the grid, the
\* extreme points and the placed list of one run only, however the steps of
\* two runs are interleaved, and each getOptimalBinPacking run returns exactly
\* the list it returns when it is executed alone.
C18_RunsShareNoState ==
    /\ [][ \A a \in Runs : \A b \in Runs :
              (OwnState(a)' # OwnState(a) /\ OwnState(b)' # OwnState(b)) => a = b ]_vars
    /\ [](\A r \in Runs :
              (engine[r] = "extremePoint" /\ Returned(r))
                  => placedItems[r] = AloneResult(r))

\* two runs of different requests have both returned a non-empty list
C18_Witness ==
    \E a \in Runs : \E b \in Runs :
        /\ engine[a] = "extremePoint" /\ engine[b] = "extremePoint"
        /\ containerDims[a] # containerDims[b]
        /\ Returned(a) /\ Returned(b)
        /\ Len(placedItems[a]) > 1 /\ Len(placedItems[b]) > 0

-----------------------------------------------------------------------------
\* Properties of the greedy loop's exit

\* one more unit of the candidate of score s keeps both totals of the list in
\* budget (a total or a budget that is not a number is never in budget)
StillFits(list, s) ==
    /\ LessOrEqual(Plus(CombinationWeight(list), s.unitWeight),
                   parseFloat(masterCartonWeight))
    /\ LessOrEqual(Plus(CombinationVolume(list), s.unitVolume),
                   calculateVolume(parseDimensions(masterCartonDims)))

\* C19: when optimizeCombination leaves its loop and returns the result, a
\* fixed point has been reached: for every candidate, one more unit of it on
\* top of the final totals would go over the weight budget or the volume
\* budget, so no candidate can still be incremented.
C19_FixedPointAtReturn ==
    cpc \in {"store", "finally"} /\ result # <<>>
        => \A k \in 1..Len(efficiencyScores) : ~StillFits(result, efficiencyScores[k])

\* the loop has ended after it gave units to two candidates
C19_Witness ==
    /\ cpc = "store"
    /\ Len(result) = 2
    /\ result[1].quantity > 1 /\ result[2].quantity > 1

-----------------------------------------------------------------------------
\* Properties of the guillotine commit

\* a box by its low and high corners
SpaceBox(s) ==
    [lo |-> <<s.x, s.y, s.z>>,
     hi |-> <<s.x + s.width, s.y + s.height, s.z + s.depth>>]

ItemBox(item) ==
    [lo |-> <<item.x, item.y, item.z>>,
     hi |-> <<item.x + item.w, item.y + item.h, item.z + item.d>>]

\* the box of a PlacedItem of run r, from its doubled centre-relative position
PlacedBox(r, p) ==
    LET c == <<norm[r].containerX, norm[r].containerY, norm[r].containerZ>>
        lo == [i \in 1..3 |-> (p.position[i] - p.dimensions[i] + c[i]) \div 2]
    IN  [lo |-> lo, hi |-> [i \in 1..3 |-> lo[i] + p.dimensions[i]]]

BoxesOverlap(a, b) == \A i \in 1..3 : a.lo[i] < b.hi[i] /\ b.lo[i] < a.hi[i]
BoxInside(a, b) == \A i \in 1..3 : b.lo[i] <= a.lo[i] /\ a.hi[i] <= b.hi[i]

PairwiseApart(boxes) ==
    \A i \in 1..Len(boxes) : \A j \in 1..Len(boxes) :
        i # j => ~BoxesOverlap(boxes[i], boxes[j])

\* the boxes, pairwise apart and inside the whole, leave no part of the whole
\* uncovered: every cell between neighbouring faces lies in one of the boxes
CoversExactly(boxes, whole) ==
    LET cuts(i) == {whole.lo[i], whole.hi[i]}
                     \cup {boxes[k].lo[i] : k \in 1..Len(boxes)}
                     \cup {boxes[k].hi[i] : k \in 1..Len(boxes)}
        spans(i) == { <<a, b>> \in cuts(i) \X cuts(i) :
                        /\ whole.lo[i] <= a /\ a < b /\ b <= whole.hi[i]
                        /\ ~(\E c \in cuts(i) : a < c /\ c < b) }
    IN  /\ PairwiseApart(boxes)
        /\ \A k \in 1..Len(boxes) : BoxInside(boxes[k], whole)
        /\ \A sx \in spans(1) : \A sy \in spans(2) : \A sz \in spans(3) :
              \E k \in 1..Len(boxes) :
                  BoxInside([lo |-> <<sx[1], sy[1], sz[1]>>,
                             hi |-> <<sx[2], sy[2], sz[2]>>], boxes[k])

\* the free spaces that run r retains and the boxes it has placed
RetainedBoxes(r) ==
    [k \in 1..Len(emptySpaces[r]) |-> SpaceBox(emptySpaces[r][k])]
      \o [k \in 1..Len(placedItems[r]) |-> PlacedBox(r, placedItems[r][k])]

ContainerBox(r) ==
    [lo |-> <<0, 0, 0>>,
     hi |-> <<norm[r].containerX, norm[r].containerY, norm[r].containerZ>>]

\* in every state of a guillotine run the retained free spaces and the placed
\* boxes are pairwise non-overlapping and lie inside the container
GuillotineBoxesApart ==
    \A r \in Runs :
        (engine[r] = "guillotine" /\ pc[r] # "Start") =>
            /\ PairwiseApart(RetainedBoxes(r))
            /\ \A k \in 1..Len(RetainedBoxes(r)) :
                  BoxInside(RetainedBoxes(r)[k], ContainerBox(r))

\* C20: in the guillotine strategy each commit removes the chosen free space
\* and adds at most three successors (right-of, top-of, front-of) such that
\* the successors and the placed item's box are pairwise non-overlapping and
\* together cover exactly the removed free space; consequently in every
\* reachable state all retained free spaces and all placed boxes are pairwise
\* non-overlapping and lie inside the container.
C20_SplitCoversExactly ==
    /\ splitPc = "returned" =>
          /\ Len(splitReturn) <= 3
          /\ CoversExactly(<<ItemBox(splitCall.item)>>
                             \o [k \in 1..Len(splitReturn) |-> SpaceBox(splitReturn[k])],
                           SpaceBox(splitCall.space))
    /\ GuillotineBoxesApart

-----------------------------------------------------------------------------
\* Properties of the retained free spaces

\* C21: in every state of a guillotine run observed between loop iterations,
\* no retained free space is wholly contained in another retained free space,
\* and every retained free space can host at least one orientation of the item.
C21_FreeSpacesPruned ==
    \A r \in Runs :
        (engine[r] = "guillotine" /\ itemIndex[r] >= 1) =>
            \A k \in 1..Len(emptySpaces[r]) :
                /\ ~(\E i \in 1..Len(emptySpaces[r]) :
                        i # k /\ ContainedIn(emptySpaces[r][k], emptySpaces[r][i]))
                /\ \E o \in 1..Len(orientations[r]) :
                        canFit(emptySpaces[r][k], orientations[r][o].dims)

-----------------------------------------------------------------------------
\* Properties of a selection pass

\* the pairs <<point index, orientation index>> of run r that pass canPlace
PlaceablePairs(r) ==
    { q \in (1..Len(container[r].extremePoints)) \X (1..Len(orientations[r])) :
        canPlace(container[r], container[r].extremePoints[q[1]], orientations[r][q[2]]) }

\* pair a is evaluated before pair b
EvaluatedBefore(a, b) == a[1] < b[1] \/ (a[1] = b[1] /\ a[2] < b[2])

\* point a is visited no later than point b: ascending height coordinate,
\* then x, then y
VisitedInOrder(a, b) ==
    \/ a[3] < b[3]
    \/ a[3] = b[3] /\ a[1] < b[1]
    \/ a[3] = b[3] /\ a[1] = b[1] /\ a[2] <= b[2]

\* C22: in each selection pass of the extreme-point engine the committed
\* (point, orientation) is a pair for which canPlace is true and whose point
\* minimises x^2 + y^2 + z^2 over all such pairs; among pairs of equal fitness
\* the winner is the first in evaluation order, where points are visited in
\* ascending order of height coordinate, then x, then y, and orientations in
\* getAllOrientations order.
C22_BestPairSelected ==
    \A r \in Runs :
        (engine[r] = "extremePoint" /\ pc[r] = "Placing") =>
            LET eps == container[r].extremePoints
                Sq(p) == p[1] * p[1] + p[2] * p[2] + p[3] * p[3]
            IN  /\ \A i \in 1..Len(eps) : \A j \in 1..Len(eps) :
                      i < j => VisitedInOrder(eps[i], eps[j])
                /\ orientations[r] = getAllOrientations(ItemTriple(r))
                /\ \E w \in PlaceablePairs(r) :
                      /\ best[r].position = eps[w[1]]
                      /\ best[r].orientation = orientations[r][w[2]]
                      /\ \A q \in PlaceablePairs(r) :
                            /\ Sq(eps[w[1]]) <= Sq(eps[q[1]])
                            /\ (Sq(eps[q[1]]) = Sq(eps[w[1]]) /\ q # w)
                                  => EvaluatedBefore(w, q)

\* a pass in which two different points of equal fitness are both placeable
\* and the winner is one of them
C22_Witness ==
    \E r \in Runs :
        /\ engine[r] = "extremePoint" /\ pc[r] = "Placing"
        /\ Len(placedItems[r]) >= 1
        /\ \E a \in PlaceablePairs(r) : \E b \in PlaceablePairs(r) :
              /\ a[1] # b[1]
              /\ Fitness(container[r].extremePoints[a[1]])
                    = Fitness(container[r].extremePoints[b[1]])
              /\ best[r].position = container[r].extremePoints[a[1]]

-----------------------------------------------------------------------------
\* Properties of a commit of the extreme-point engine

\* the grid cells that lie wholly inside the box at position with extents
\* rotation: a cell is one unit long on each axis, so cell k of an axis lies
\* inside when k units >= position and k + 1 units <= position + extent
CellsInside(c, position, rotation) ==
    LET first(i) == Max(0, Ceil(position[i]))
        last(i) == Min(c.spaceLen[i] - 1, Floor(position[i] + rotation[i]) - 1)
    IN  (first(1)..last(1)) \X (first(2)..last(2)) \X (first(3)..last(3))

\* the three far-face points of the box
FarFacePoints(position, rotation) ==
    { <<position[1] + rotation[1], position[2], position[3]>>,
      <<position[1], position[2] + rotation[2], position[3]>>,
      <<position[1], position[2], position[3] + rotation[3]>> }

InList(eps, point) == \E i \in 1..Len(eps) : eps[i] = point

\* what a step that commits the box chosen by run r leaves behind
CommitEffect(r) ==
    LET p == best[r].position
        o == best[r].orientation
        before == container[r]
        after == container'[r]
    IN  /\ CellsInside(before, p, o) \subseteq after.space
        /\ ~InList(after.extremePoints, p)
        /\ \A far \in FarFacePoints(p, o) :
              (/\ far[1] >= 0 /\ far[1] <= before.width
               /\ far[2] >= 0 /\ far[2] <= before.depth
               /\ far[3] >= 0 /\ far[3] <= before.height)
                  => InList(after.extremePoints, far)
        /\ Len(after.items) = Len(before.items) + 1
        /\ SubSeq(after.items, 1, Len(before.items)) = before.items
        /\ after.items[Len(after.items)].id = itemIndex[r] - 1
        /\ after.items[Len(after.items)].position = p
        /\ after.items[Len(after.items)].rotation = o

\* C23: after addItemToContainer commits a box at extreme point p, every
\* integer grid cell inside the box is occupied, p is no longer in the
\* extreme-point list, each of the three far-face points (x+w,y,z), (x,y+d,z),
\* (x,y,z+h) that lies within the container bounds is in the list and the item
\* is appended to the container's items; and in every reachable state the
\* extreme-point list holds no two equal points and only points within
\* [0,width] x [0,depth] x [0,height].
C23_CommitUpdatesContainer ==
    /\ [][ \A r \in Runs :
              (engine[r] = "extremePoint" /\ pc[r] = "Placing" /\ pc'[r] # "Placing")
                  => CommitEffect(r) ]_vars
    /\ [](\A r \in Runs :
              (engine[r] = "extremePoint" /\ pc[r] # "Start") =>
                  LET eps == container[r].extremePoints
                  IN  /\ \A i \in 1..Len(eps) : \A j \in 1..Len(eps) :
                            i # j => eps[i] # eps[j]
                      /\ \A i \in 1..Len(eps) :
                            /\ eps[i][1] >= 0 /\ eps[i][1] <= container[r].width
                            /\ eps[i][2] >= 0 /\ eps[i][2] <= container[r].depth
                            /\ eps[i][3] >= 0 /\ eps[i][3] <= container[r].height)

\* a commit has marked a cell, and a later commit found one of its far-face
\* points in the list already or outside the container
C23_Witness ==
    \E r \in Runs :
        /\ engine[r] = "extremePoint" /\ pc[r] = "Selecting"
        /\ Len(container[r].items) >= 2
        /\ container[r].space # {}
        /\ Len(container[r].extremePoints) < 1 + 2 * Len(container[r].items)

-----------------------------------------------------------------------------
\* Properties of the guillotine loop's bounds re-check

\* the iteration that run r is about to execute finds a best fit
FindsBestFit(r) ==
    FindBestPlacement(SortSpaces(emptySpaces[r]), orientations[r]).found

\* an iteration of run r's loop: one PlacedItem more when it finds a best fit,
\* none and the end of the loop when it finds none
IterationPlaces(r) ==
    (engine[r] = "guillotine" /\ itemIndex'[r] = itemIndex[r] + 1) =>
        IF FindsBestFit(r)
        THEN /\ Len(placedItems'[r]) = Len(placedItems[r]) + 1
             /\ SubSeq(placedItems'[r], 1, Len(placedItems[r])) = placedItems[r]
        ELSE placedItems'[r] = placedItems[r] /\ pc'[r] = "Exhausted"

\* C24: in the guillotine loop the defensive bounds re-check never fails for a
\* placement chosen by best-fit: the branch that discards the free space
\* without placing an item is unreachable, so every iteration that finds a
\* best fit appends exactly one PlacedItem and the iteration count always
\* equals the placed count.
C24_RecheckNeverFails ==
    /\ [][\A r \in Runs : IterationPlaces(r)]_vars
    /\ [](\A r \in Runs :
              (engine[r] = "guillotine" /\ pc[r] # "Start")
                  => itemIndex[r] = Len(placedItems[r]))

\* C24 as amended: the bounds re-check never fails for a placement chosen by
\* best-fit, so every iteration that finds a best fit appends exactly one
\* PlacedItem; the iteration count equals the placed count while the loop
\* runs, and is one more than the placed count after the loop has ended with
\* an iteration that found no best fit.
C24_RecheckNeverFailsAmended ==
    /\ [][\A r \in Runs : IterationPlaces(r)]_vars
    /\ [](\A r \in Runs :
              (engine[r] = "guillotine" /\ pc[r] = "Selecting")
                  => itemIndex[r] = Len(placedItems[r]))
    /\ [](\A r \in Runs :
              (engine[r] = "guillotine" /\ pc[r] = "Exhausted")
                  => \/ itemIndex[r] = Len(placedItems[r])
                     \/ /\ itemIndex[r] = Len(placedItems[r]) + 1
                        /\ ~FindsBestFit(r))

\* a loop that placed items against the far walls and ended with an
\* iteration that found no best fit
C24_Witness ==
    \E r \in Runs :
        /\ engine[r] = "guillotine" /\ pc[r] = "Exhausted"
        /\ Len(placedItems[r]) >= 2
        /\ itemIndex[r] = Len(placedItems[r]) + 1

-----------------------------------------------------------------------------
\* Properties of the rotated flag

\* C25: in every PlacedItem returned by a pack run, the rotated flag is true
\* exactly when the placed dimensions triple differs from the item's natural
\* normalised (length, width, height) triple, and false exactly when it equals
\* it, also when two or three item axes are equal.
C25_RotatedFlagExact ==
    \A r \in Runs :
        pc[r] = "Exhausted" =>
            \A k \in 1..Len(placedItems[r]) :
                placedItems[r][k].rotated
                    <=> (placedItems[r][k].dimensions # ItemTriple(r))

-----------------------------------------------------------------------------
\* Properties of the end of an extreme-point run

\* C26: the extreme-point engine stops only when exhausted: whenever
\* getOptimalBinPacking returns fewer than theoreticalMax items, no (extreme
\* point, orientation) pair of the final state passes canPlace; it never
\* returns while the count is below theoreticalMax and some pair is still
\* placeable.
C26_StopsOnlyWhenExhausted ==
    \A r \in Runs :
        (/\ engine[r] = "extremePoint" /\ pc[r] = "Exhausted"
         /\ Len(placedItems[r]) < theoreticalMax[r])
            => /\ PlaceablePairs(r) = {}
               /\ orientations[r] = getAllOrientations(ItemTriple(r))

\* a run that placed items and returned fewer than theoreticalMax of them,
\* with several extreme points left
C26_Witness ==
    \E r \in Runs :
        /\ engine[r] = "extremePoint" /\ pc[r] = "Exhausted"
        /\ Len(placedItems[r]) >= 1
        /\ Len(placedItems[r]) < theoreticalMax[r]
        /\ Len(container[r].extremePoints) >= 2

-----------------------------------------------------------------------------
\* Properties of the occupancy grid

\* the normalised container and item dimensions of run r are whole units
IntegerRun(r) ==
    \A v \in {norm[r].containerX, norm[r].containerY, norm[r].containerZ,
              norm[r].itemX, norm[r].itemY, norm[r].itemZ} : v % TicksPerCm = 0

\* the cells of run r's grid inside the box of some committed placement
CommittedCells(r) ==
    UNION { CellsInside(container[r], container[r].items[k].position,
                        container[r].items[k].rotation) :
              k \in 1..Len(container[r].items) }

\* C27: for integer container and item dimensions, in every reachable state
\* of an extreme-point run a grid cell is occupied if and only if it lies
\* inside the box of some committed placement; occupied cells never revert to
\* free, and only commit changes the grid (canPlace and candidate selection
\* leave every cell unchanged).
C27_GridMatchesPlacements ==
    /\ [](\A r \in Runs :
              (engine[r] = "extremePoint" /\ pc[r] # "Start" /\ IntegerRun(r))
                  => container[r].space = CommittedCells(r))
    /\ [][ \A r \in Runs :
              (engine[r] = "extremePoint" /\ pc[r] # "Start" /\ IntegerRun(r))
                  => /\ container[r].space \subseteq container'[r].space
                     /\ container'[r].space # container[r].space
                           => /\ pc[r] = "Placing"
                              /\ Len(container'[r].items) = Len(container[r].items) + 1 ]_vars

\* an integer run has committed two boxes of several cells each
C27_Witness ==
    \E r \in Runs :
        /\ engine[r] = "extremePoint" /\ pc[r] = "Selecting" /\ IntegerRun(r)
        /\ Len(container[r].items) >= 2
        /\ Cardinality(container[r].space) >= 2 * 4

-----------------------------------------------------------------------------
\* Properties of the result list while optimizeCombination runs

\* the handler is between the seeding and the end of its try block
AfterSeeding == cpc \in {"while", "for", "store"}

\* C28: throughout optimizeCombination, after seeding, every candidate's
\* quantity is at least 1 and never decreases; each candidate's totalWeight
\* equals quantity x unit weight and its totalVolume equals quantity x unit
\* volume; the running totalWeight and totalVolume equal the sums over all
\* candidates; and the result list keeps the input order of the products
\* regardless of the efficiency sort.
C28_ResultListConsistent ==
    /\ [](AfterSeeding =>
            /\ Len(result) = Len(products)
            /\ \A i \in 1..Len(result) :
                  /\ result[i].quantity >= 1
                  /\ result[i].unitWeight = products[i].unitWeight
                  /\ result[i].unitCartonDimensions = products[i].unitCartonDimensions
                  /\ result[i].totalWeight
                        = Times(result[i].quantity, products[i].unitWeight)
                  /\ result[i].totalVolume
                        = Times(result[i].quantity,
                                calculateVolume(parseDimensions(
                                    products[i].unitCartonDimensions)))
            /\ totalWeight = CombinationWeight(result)
            /\ totalVolume = CombinationVolume(result))
    /\ [][ (AfterSeeding /\ AfterSeeding') =>
              \A i \in 1..Len(result) : result'[i].quantity >= result[i].quantity ]_vars

\* the loop has ended with more than one unit of a candidate, and the
\* efficiency sort had put the second product first
C28_Witness ==
    /\ cpc = "store"
    /\ Len(result) = 2
    /\ efficiencyScores[1].index = 2
    /\ result[2].quantity >= 2
    /\ result[1].quantity >= 2

-----------------------------------------------------------------------------
\* Properties of the budgets while the greedy loop runs

\* the list's two totals are within the budgets typed into the two fields
WithinBudgets(list) ==
    /\ LessOrEqual(CombinationWeight(list), parseFloat(masterCartonWeight))
    /\ LessOrEqual(CombinationVolume(list),
                   calculateVolume(parseDimensions(masterCartonDims)))

\* one unit of every product
SeededCombination == [i \in 1..Len(products) |-> SeedProduct(products[i])]

\* C29: if the seeded combination (one unit of every candidate) is within both
\* the volume and the weight budget, then every intermediate state of the
\* greedy loop and the final combination are within both budgets: no increment
\* step ever moves a total from within budget to over budget.
C29_SeedWithinStaysWithin ==
    /\ []((AfterSeeding /\ WithinBudgets(SeededCombination))
              => /\ WithinBudgets(result)
                 /\ LessOrEqual(totalWeight, maxWeight)
                 /\ LessOrEqual(totalVolume, masterVolume))
    /\ []((cpc = "finally" /\ result # <<>> /\ WithinBudgets(SeededCombination))
              => optimizedCombination = result /\ WithinBudgets(optimizedCombination))
    /\ [][ (AfterSeeding /\ AfterSeeding' /\ WithinBudgets(result))
              => WithinBudgets(result') ]_vars

\* the loop has added units to a seed that was within both budgets, and the
\* volume budget is used up while the weight budget is not
C29_Witness ==
    /\ cpc = "store"
    /\ WithinBudgets(SeededCombination)
    /\ \E i \in 1..Len(result) : result[i].quantity >= 2
    /\ totalVolume = masterVolume
    /\ totalWeight < maxWeight

-----------------------------------------------------------------------------
\* Properties of the handler's exits

\* C30: every invocation of optimizeCombination that passes the initial input
\* check ends with loading = false, whether it succeeds or throws; if an
\* exception occurs at any step, the previously stored optimizedCombination is
\* left unchanged, and the stored combination is replaced only after the
\* greedy loop has completed.
C30_HandlerExits ==
    /\ [](/\ cpc \in {"idle", "try", "while", "for", "store", "catch", "finally"}
          /\ loading <=> cpc # "idle")
    /\ [][ /\ (cpc # "idle" /\ cpc' = "idle") => (cpc = "finally" /\ ~loading')
           /\ cpc = "catch" => (cpc' = "finally" /\ optimizedCombination' = optimizedCombination)
           /\ (cpc = "finally" /\ toast = "Error during optimization")
                 => (cpc' = "idle" /\ optimizedCombination' = optimizedCombination)
           /\ optimizedCombination' # optimizedCombination
                 => /\ cpc = "store" /\ ~improved
                    /\ optimizedCombination' = result
                    /\ \A k \in 1..Len(efficiencyScores) : ~CanAdd(efficiencyScores[k]) ]_vars

\* a second invocation has thrown while the combination of the first is stored
C30_Witness ==
    /\ cpc = "finally"
    /\ loading
    /\ toast = "Error during optimization"
    /\ optimizedCombination # <<>>
    /\ \E i \in 1..Len(optimizedCombination) : optimizedCombination[i].quantity >= 2

====
